---------------------------- MODULE Spec2Model ----------------------------
(***************************************************************************)
(* Model of centraal-client-flow.                                          *)
(*                                                                         *)
(* Rule engine (centraal_client_flow/rules/update.py): RuleSelector        *)
(* (register_rule, select_rule, get_topics_by_changes), Rule.process_rule  *)
(* and the service-bus handler RuleProcessor.process_function with its     *)
(* helpers get_current_entrada, detect_changes, save_unified_model,        *)
(* record_auditoria and publish_to_topics.                                 *)
(*                                                                         *)
(* Strings are sequences of tokens, so that rendering and parsing of a     *)
(* composite id are real conversions.  Python's None is NULL.              *)
(***************************************************************************)
EXTENDS Integers, Sequences, FiniteSets, Bags, TLC

VARIABLES
    rules,      \* RuleSelector.rules: the registered rules, in order
    reg,        \* the last register_rule call of the startup: rule, outcome,
                \* rules before (NULL once messages are handled)
    gt,         \* the last direct get_topics_by_changes call: arguments, result
    unified,    \* unified container: rendered id -> stored document (or NULL)
    audit,      \* audit container: a bag of stored audit documents
    sent,       \* service bus: topic -> sequence of message bodies received
    persisted,  \* history: every document ever upserted in the unified container
    pc,         \* position of process_function
    h,          \* locals of process_function for the message in hand
    pre,        \* history: the rules, containers and topics when the message
                \* arrived, and the message handled before it
    ops,        \* history: the container and topic calls made for the message
    outcome,    \* how the handling of the last message ended
    nHandled,   \* messages taken from the queue so far
    idop,       \* the last Composite-ID or type-definition operation: its
                \* arguments and its result
    instance,   \* ServiceBusClientSingleton._instance (NULL: none yet)
    client,     \* _instance.client (NULL: none)
    senders,    \* ServiceBusClientSingleton.senders: queue name -> sender
    broker,     \* the broker: queue name -> messages the function in hand
                \* has delivered, in order
    frame,      \* the adapter function running and its send_message_to_queue
                \* call: locals and position
    log,        \* history: the sender and client calls the function in
                \* hand has made, in order
    nSenders,   \* senders created so far (a sender is known by its number)
    nFaults,    \* broker and connection failures so far
    nCalls,     \* adapter functions started so far
    irule,      \* the integration rule instance: id_esquema, body_sent
    rframe,     \* the run (or register_log) call of the rule in hand: its
                \* locals and position
    intAudit,   \* the integration-audit container: id -> document
    written,    \* history: every document given to upsert_item of the
                \* integration-audit container, in order
    ilog,       \* history: the integrate calls, sleeps and upserts of the
                \* call in hand, in order
    nRuns,      \* calls of the rule started so far
    diff,       \* the last direct detect_changes call: arguments and result
    sess,       \* the session-enabled queue and the workers that handle it
    rest,       \* a RESTIntegration instance, the calls of integrate in
                \* progress on it and the token endpoint
    cosmos,     \* the CosmosDBSingleton class and the calls in progress on it
    par,        \* a broker client shared by send_message_to_queue calls that
                \* run at the same time
    cruns,      \* the run calls in progress at the same time on one rule
    failed      \* the handling of a queue message that raised after its
                \* upsert, until the message is redelivered

\* The rule engine
ruleVars == <<rules, reg, gt, unified, audit, sent, persisted, pc, h, pre, ops,
              outcome, nHandled>>

\* The broker client and the ingress adapters
busVars == <<instance, client, senders, broker, frame, log, nSenders, nFaults,
            nCalls>>

\* The integration rule
intVars == <<irule, rframe, intAudit, written, ilog, nRuns>>

\* What the rule engine, the ID operations and the broker client leave alone
\* The shared objects of the calls that run at the same time, and the failed
\* handling
newVars == <<rest, cosmos, par, cruns, failed>>

extVars == <<intVars, diff, sess, newVars>>

vars == <<rules, reg, gt, unified, audit, sent, persisted, pc, h, pre, ops,
          outcome, nHandled, idop, instance, client, senders, broker, frame,
          log, nSenders, nFaults, nCalls, irule, rframe, intAudit, written,
          ilog, nRuns, diff, sess, rest, cosmos, par, cruns, failed>>

-----------------------------------------------------------------------------
(* Bounds *)

MaxMsgs == 2     \* messages taken from the queue in one behaviour
MaxRules == 2    \* rules registered at startup
MaxCalls == 2    \* adapter functions (receive_event, timer_function) run
MaxFaults == 3   \* broker and connection failures in one behaviour
MaxRuns == 2     \* calls of the integration rule (run, register_log)
MaxPublished == 2 \* events the adapters publish to the session-enabled queue
MaxIntegrates == 3 \* calls of RESTIntegration.integrate in one behaviour
MaxCosmosCalls == 3 \* constructions of and container accesses on CosmosDBSingleton
MaxParRuns == 2  \* run calls started on the rule that threads share
MaxParSends == 3 \* send_message_to_queue calls started on the shared client
MaxParFaults == 2 \* sends the broker fails, the senders being open

-----------------------------------------------------------------------------
(* Values *)

NULL == [none |-> TRUE]

\* A str value: its tokens
Str(t) == [s |-> t]

\* IDModel.separator default
Separator == "-"

\* TestIDModel: cliente_id, producto_id, in declaration order
IdFieldNames == <<"cliente_id", "producto_id">>

IdModels ==
    [cliente_id : {Str(<<"CLI001">>), Str(<<"CLI002">>)},
     producto_id : {Str(<<"PROD001">>)}]

RECURSIVE JoinFields(_, _)
JoinFields(id, i) ==
    IF i > Len(IdFieldNames) THEN <<>>
    ELSE (IF i = 1 THEN <<>> ELSE <<Separator>>)
         \o id[IdFieldNames[i]].s \o JoinFields(id, i + 1)

\* IDModel.serialize_as_str: the user fields joined by the separator
Render(id) == JoinFields(id, 1)

RECURSIVE SplitAt(_, _, _)
SplitAt(s, sep, cur) ==
    IF s = <<>> THEN <<cur>>
    ELSE IF Head(s) = sep THEN <<cur>> \o SplitAt(Tail(s), sep, <<>>)
    ELSE SplitAt(Tail(s), sep, cur \o <<Head(s)>>)

\* str.split(sep)
Split(s, sep) == SplitAt(s, sep, <<>>)

\* IDModel.parse_serialized_id: NULL (ValueError) when the number of parts is
\* not the number of user fields, else dict(zip(field_names, values)).
ParseId(s) ==
    LET parts == Split(s, Separator) IN
    IF Len(parts) # Len(IdFieldNames) THEN NULL
    ELSE [f \in {IdFieldNames[i] : i \in 1..Len(IdFieldNames)} |->
            Str(parts[CHOOSE j \in 1..Len(IdFieldNames) : IdFieldNames[j] = f])]

\* Top-level fields of the unified model (modelo_unificado.model_fields)
ModelFields == {"id", "maestra", "contacto"}

\* The subschemas of the unified model: its fields other than the id
Subschemas == ModelFields \ {"id"}

AllTopics == {"root"} \cup ModelFields

-----------------------------------------------------------------------------
(* Queue messages and event models *)

\* json.loads(msg.get_body()): the keys a queue message may carry.  id is the
\* rendered composite id (a str); an absent key is NULL.
RawIds == {Str(<<"CLI001", "-", "PROD001">>), Str(<<"CLI002", "-", "PROD001">>),
           Str(<<"XYZ123">>)}

Maestras == {[info |-> Str(<<"hello">>)], [info |-> Str(<<"world">>)]}
Contactos == {[email |-> Str(<<"a@b">>)]}
Datas == {Str(<<"test_data">>)}

QueueMessages ==
    {m \in [id : RawIds \cup {NULL}, data : Datas \cup {NULL},
            maestra : Maestras \cup {NULL}, contacto : Contactos \cup {NULL}] :
        \/ m.id = Str(<<"CLI001", "-", "PROD001">>)
           /\ (m.contacto # NULL => m.maestra = [info |-> Str(<<"hello">>)])
           /\ (m.data # NULL => m.contacto = NULL
                                /\ m.maestra # [info |-> Str(<<"world">>)])
        \/ m.id = Str(<<"CLI002", "-", "PROD001">>)
           /\ m.data = NULL /\ m.contacto = NULL
           /\ m.maestra = [info |-> Str(<<"hello">>)]
        \/ m.id = Str(<<"XYZ123">>)
           /\ m.data = NULL /\ m.contacto = NULL
           /\ m.maestra = [info |-> Str(<<"hello">>)]}

\* The EventoBase subclasses of the rules: TestEventoBase (id, data) of the
\* tests and an event that carries subschemas of the unified record.
EventModelNames == {"TestEventoBase", "EventoCliente"}

RequiredFields(model) ==
    IF model = "TestEventoBase" THEN {"id", "data"} ELSE {"id", "maestra"}

DeclaredFields(model) ==
    IF model = "TestEventoBase" THEN {"id", "data"}
    ELSE {"id", "maestra", "contacto"}

\* rule.model.model_validate(data): NULL stands for ValidationError.  Keys the
\* model does not declare are ignored; the id is parsed from its string.
ModelValidate(model, data) ==
    IF \E f \in RequiredFields(model) : data[f] = NULL THEN NULL
    ELSE IF ParseId(data.id.s) = NULL THEN NULL
    ELSE [model |-> model,
          id |-> ParseId(data.id.s),
          data |-> IF "data" \in DeclaredFields(model) THEN data.data ELSE NULL,
          maestra |-> IF "maestra" \in DeclaredFields(model) THEN data.maestra ELSE NULL,
          contacto |-> IF "contacto" \in DeclaredFields(model) THEN data.contacto ELSE NULL]

-----------------------------------------------------------------------------
(* Rules and the selector *)

ProcessorNames == {"MockUpdateProcessor", "MergeProcessor"}

\* The rules the application may try to register at startup.
CandidateRules ==
    { [model |-> "TestEventoBase", processor |-> "MockUpdateProcessor",
       topics |-> {"maestra", "root"}],
      [model |-> "EventoCliente", processor |-> "MergeProcessor",
       topics |-> {"maestra", "contacto"}],
      [model |-> "EventoCliente", processor |-> "MergeProcessor",
       topics |-> {"id", "contacto"}],
      [model |-> "TestEventoBase", processor |-> "MockUpdateProcessor",
       topics |-> {"maestra", "topic1"}] }

\* RuleSelector._validate_rule: FALSE stands for ValueError
ValidateRule(rule) ==
    \A t \in rule.topics : t = "root" \/ t \in ModelFields

\* RuleSelector.register_rule: the rule list after the call
RegisterRule(rs, rule) ==
    IF ValidateRule(rule) THEN Append(rs, rule) ELSE rs

\* Mutant of SelectFrom: the last rule that validates wins
SelectFrom_lastMatch(rs, i, data) ==
    LET matching == {j \in i..Len(rs) : ModelValidate(rs[j].model, data) # NULL} IN
    IF matching = {} THEN [found |-> FALSE, index |-> 0, event |-> NULL]
    ELSE LET last == CHOOSE j \in matching : \A k \in matching : k <= j
         IN  [found |-> TRUE, index |-> last,
              event |-> ModelValidate(rs[last].model, data)]

\* Mutant of SelectFrom: when no rule validates, the last rule is used with
\* the data as it is, defaults standing for the keys it lacks
SelectFrom_fallback(rs, i, data) ==
    LET matching == {j \in i..Len(rs) : ModelValidate(rs[j].model, data) # NULL} IN
    IF matching # {}
    THEN LET first == CHOOSE j \in matching : \A k \in matching : j <= k
         IN  [found |-> TRUE, index |-> first,
              event |-> ModelValidate(rs[first].model, data)]
    ELSE IF Len(rs) = 0 \/ data.id = NULL THEN [found |-> FALSE, index |-> 0, event |-> NULL]
    ELSE IF ParseId(data.id.s) = NULL THEN [found |-> FALSE, index |-> 0, event |-> NULL]
    ELSE [found |-> TRUE, index |-> Len(rs),
          event |-> [model |-> rs[Len(rs)].model, id |-> ParseId(data.id.s),
                     data |-> IF data.data = NULL THEN Str(<<>>) ELSE data.data,
                     maestra |-> IF data.maestra = NULL THEN [info |-> Str(<<>>)]
                                 ELSE data.maestra,
                     contacto |-> NULL]]

RECURSIVE SelectFrom(_, _, _)
SelectFrom(rs, i, data) ==
    IF i > Len(rs) THEN [found |-> FALSE, index |-> 0, event |-> NULL]
    ELSE IF ModelValidate(rs[i].model, data) # NULL
         THEN [found |-> TRUE, index |-> i,
               event |-> ModelValidate(rs[i].model, data)]
         ELSE SelectFrom(rs, i + 1, data)

\* RuleSelector.select_rule: found = FALSE stands for NoHayReglas
SelectRule(rs, data) == SelectFrom(rs, 1, data)

\* Mutant of GetTopicsByChanges: include_root is not looked at
GetTopicsByChanges_rootAlways(rule_topics, changes, include_root) ==
    {c.subesquema : c \in {c \in changes : c.subesquema \in rule_topics}}

\* RuleSelector.get_topics_by_changes: the set the returned list is built from
GetTopicsByChanges(rule_topics, changes, include_root) ==
    {c.subesquema : c \in
        {c \in changes : /\ c.subesquema \in rule_topics
                         /\ (include_root \/ c.subesquema # "root")}}

-----------------------------------------------------------------------------
(* Unified records, documents and the update processors *)

\* A unified record (TestEntradaEsquemaUnificado with a second subschema):
\* [id, maestra, contacto, fs], fs being its model_fields_set.

\* model_dump(mode="json", exclude_none=True) of a unified record: the id is
\* rendered, a None field is absent (NULL)
Dump(rec) ==
    [id |-> Render(rec.id), maestra |-> rec.maestra, contacto |-> rec.contacto]

\* model_unificado.model_validate(doc): the id is parsed, the keys present are
\* the fields set
UnifiedValidate(doc) ==
    [id |-> ParseId(doc.id), maestra |-> doc.maestra, contacto |-> doc.contacto,
     fs |-> {"id"} \cup {f \in Subschemas : doc[f] # NULL}]

\* MockUpdateProcessor.process_message of the tests: builds a record when there
\* is none, else assigns to the record it was given and returns that object.
\* result: the returned record; event, current: the argument objects after
\* the call.
MockUpdateProcessor(event, current) ==
    IF current = NULL
    THEN [result |-> [id |-> event.id,
                      maestra |-> [info |-> Str(<<"new_processed_">> \o event.data.s)],
                      contacto |-> NULL,
                      fs |-> {"id", "maestra"}],
          event |-> event, current |-> current]
    ELSE LET upd == [current EXCEPT
                        !.maestra = [info |-> Str(<<"processed_">> \o event.data.s)]]
         IN  [result |-> upd, event |-> event, current |-> upd]

\* A process_message that keeps its contract: it returns a new record, the
\* current one (or a fresh one) with the subschemas the event carries, and
\* leaves its arguments alone.
MergeProcessor(event, current) ==
    LET carried == {f \in Subschemas : event[f] # NULL}
        base == IF current = NULL
                THEN [id |-> event.id, maestra |-> NULL, contacto |-> NULL,
                      fs |-> {"id"}]
                ELSE current
    IN  [result |-> [id |-> base.id,
                     maestra |-> IF "maestra" \in carried THEN event.maestra
                                 ELSE base.maestra,
                     contacto |-> IF "contacto" \in carried THEN event.contacto
                                  ELSE base.contacto,
                     fs |-> base.fs \cup carried],
         event |-> event, current |-> current]

\* UpdateProcessor.process_message of a rule's processor
ProcessMessage(processor, event, current) ==
    IF processor = "MockUpdateProcessor" THEN MockUpdateProcessor(event, current)
    ELSE MergeProcessor(event, current)

\* Rule.process_rule: the processor is called with the caller's own objects.
\* processed: the returned record; data, current: the caller's objects after
\* the call; same_objects: the processor received the caller's objects.
ProcessRule(rule, data, current) ==
    LET r == ProcessMessage(rule.processor, data, current)
    IN  [processed |-> r.result, data |-> r.event, current |-> r.current,
         same_objects |-> TRUE]

-----------------------------------------------------------------------------
(* detect_changes *)

\* isinstance(v, BaseModel): a record that is neither None nor a str
IsBaseModel(v) == v # NULL /\ "s" \notin DOMAIN v

\* isinstance(v, IDModel)
IsIDModel(v) == DOMAIN v = {IdFieldNames[i] : i \in 1..Len(IdFieldNames)}

\* getattr(obj, name, None)
GetAttr(obj, name) == IF name \in DOMAIN obj THEN obj[name] ELSE NULL

\* _log_changes: the AuditoriaEntry appended
LogChanges(id_model, subesquema_name, old_value, new_value, field_name) ==
    [id_entrada |-> id_model, subesquema |-> subesquema_name,
     campo |-> field_name, new_value |-> new_value, old_value |-> old_value]

\* Mutant of ChangesOfNew: the id is not told apart from a subschema
ChangesOfNew_idAsSubschema(updated, id_model) ==
    UNION { LET new_value == updated[f] IN
            IF IsBaseModel(new_value)
            THEN {LogChanges(id_model, f, NULL, new_value[sf], sf) :
                     sf \in DOMAIN new_value}
            ELSE {LogChanges(id_model, "root", NULL, new_value, f)}
          : f \in updated.fs }

\* detect_changes, current_data is None: every field set is a change
ChangesOfNew(updated, id_model) ==
    UNION { LET new_value == updated[f] IN
            IF IsBaseModel(new_value) /\ ~IsIDModel(new_value)
            THEN {LogChanges(id_model, f, NULL, new_value[sf], sf) :
                     sf \in DOMAIN new_value}
            ELSE {LogChanges(id_model, "root", NULL, new_value, f)}
          : f \in updated.fs }

\* Mutant of ChangesOfExisting: subschema fields are logged without being
\* compared
ChangesOfExisting_noCompare(current, updated, id_model) ==
    UNION { LET old_value == current[f]
                new_value == updated[f]
            IN
            IF IsBaseModel(new_value) /\ ~IsIDModel(new_value)
            THEN {LogChanges(id_model, f,
                             IF old_value # NULL THEN GetAttr(old_value, sf) ELSE NULL,
                             new_value[sf], sf) : sf \in DOMAIN new_value}
            ELSE {}
          : f \in updated.fs }

\* detect_changes, current_data exists: the differing fields among those set
ChangesOfExisting(current, updated, id_model) ==
    UNION { LET old_value == current[f]
                new_value == updated[f]
            IN
            IF IsBaseModel(new_value)
            THEN {LogChanges(id_model, f,
                             IF old_value # NULL THEN GetAttr(old_value, sf) ELSE NULL,
                             new_value[sf], sf) :
                     sf \in {x \in DOMAIN new_value :
                                (IF old_value # NULL THEN GetAttr(old_value, x) ELSE NULL)
                                    # new_value[x]}}
            ELSE IF old_value # new_value
                 THEN {LogChanges(id_model, "root", old_value, new_value, f)}
                 ELSE {}
          : f \in updated.fs }

NoChangesEntry(id_model) ==
    [id_entrada |-> id_model, subesquema |-> "No Changes", campo |-> "Ninguno",
     new_value |-> Str(<<"No cambios">>), old_value |-> Str(<<"No cambios">>)]

\* RuleProcessor.detect_changes: the entries of the returned list (the list's
\* order is the iteration order of the sets of fields)
DetectChanges(current_data, updated_data, id_model) ==
    LET changes == IF current_data = NULL
                   THEN ChangesOfNew(updated_data, id_model)
                   ELSE ChangesOfExisting(current_data, updated_data, id_model)
    IN  IF changes = {} THEN {NoChangesEntry(id_model)} ELSE changes

\* Mutant of IsNoChanges: the no-op branch is taken on an empty list
IsNoChanges_emptyList(changes) == changes = {}

\* len(changes) == 1 and changes[0].subesquema == "No Changes"
IsNoChanges(changes) ==
    Cardinality(changes) = 1 /\ \A c \in changes : c.subesquema = "No Changes"

\* change.model_dump(mode="json", exclude_none=True): ids are rendered
DumpEntry(e) ==
    LET dump(v) == IF IsBaseModel(v) /\ IsIDModel(v) THEN Str(Render(v)) ELSE v
    IN  [id_entrada |-> Render(e.id_entrada), subesquema |-> e.subesquema,
         campo |-> e.campo, new_value |-> dump(e.new_value),
         old_value |-> dump(e.old_value)]

-----------------------------------------------------------------------------
(* Containers and topics *)

Keys == {Render(i) : i \in IdModels}

\* container.query_items("SELECT * FROM c WHERE c.id = '<key>'")
QueryItems(container, key) ==
    IF key \in DOMAIN container /\ container[key] # NULL
    THEN <<container[key]>> ELSE <<>>

\* RuleProcessor.get_current_entrada
GetCurrentEntrada(container, id_entrada) ==
    LET current_items == QueryItems(container, Render(id_entrada))
    IN  IF current_items # <<>> THEN UnifiedValidate(current_items[1]) ELSE NULL

\* container.upsert_item(doc) of save_unified_model
UpsertItem(container, doc) == [container EXCEPT ![doc.id] = doc]

\* container.create_item(doc, enable_automatic_id_generation=True)
CreateItem(container, doc) == container (+) SetToBag({doc})

\* sender.send_messages(SBMessage(body)) on a topic
SendMessages(topics, topic_name, body) ==
    [topics EXCEPT ![topic_name] = Append(@, body)]

\* list(a_set): the lists that enumerate the set, each member once
RECURSIVE ListsOf(_)
ListsOf(S) ==
    IF S = {} THEN {<<>>}
    ELSE UNION {{<<x>> \o l : l \in ListsOf(S \ {x})} : x \in S}

-----------------------------------------------------------------------------
(* Composite ids in general (models/schemas.py, IDModel) and the ID types  *)
(* of tests/models/test_schemas.py.  A str is the sequence of its tokens;  *)
(* the separators "-" and "|" are tokens of their own, so that a value may *)
(* contain a separator.  An int n is [i |-> n].                            *)

\* The largest int whose decimal form is read back from a str
MaxInt == 45

\* An exception raised instead of a result
Raised(kind) == [raised |-> kind]

IsRaised(r) == "raised" \in DOMAIN r

PyInt(n) == [i |-> n]

\* The ID types: IDModel itself, the three types of tests/models and
\* MockIDModel (id: str = "testid") of tests/rules/integration
IdTypes == {"IDModel", "Clase2Atrs", "Clase3Atrs", "Clase3Atrs_no_default_sep",
            "MockIDModel"}

\* cls.model_fields of an ID type, in order: the inherited separator first,
\* then the user fields in declaration order
IdModelFields(type) ==
    IF type = "Clase2Atrs"
    THEN <<[name |-> "separator", kind |-> "str", required |-> FALSE],
           [name |-> "producto_id", kind |-> "str", required |-> TRUE],
           [name |-> "lote", kind |-> "int", required |-> TRUE]>>
    ELSE IF type \in {"Clase3Atrs", "Clase3Atrs_no_default_sep"}
    THEN <<[name |-> "separator", kind |-> "str", required |-> FALSE],
           [name |-> "numero_pedido", kind |-> "str", required |-> TRUE],
           [name |-> "fecha_pedido", kind |-> "str", required |-> TRUE],
           [name |-> "add_info", kind |-> "int", required |-> TRUE]>>
    ELSE IF type = "MockIDModel"
    THEN <<[name |-> "separator", kind |-> "str", required |-> FALSE],
           [name |-> "id", kind |-> "str", required |-> FALSE]>>
    ELSE <<[name |-> "separator", kind |-> "str", required |-> FALSE]>>

\* The default of the separator field of the type
DeclaredSeparator(type) ==
    IF type = "Clase3Atrs_no_default_sep" THEN "|" ELSE Separator

\* The default of a field that has one
FieldDefault(type, name) ==
    IF name = "separator" THEN Str(<<DeclaredSeparator(type)>>)
    ELSE Str(<<"testid">>)

\* The fields of cls.model_fields other than the separator, in order
UserFields(type) ==
    SelectSeq(IdModelFields(type), LAMBDA f : f.name # "separator")

UserFieldNames(type) == {UserFields(type)[i].name : i \in 1..Len(UserFields(type))}

\* str(value)
PyStr(v) ==
    IF v = NULL THEN <<"None">>
    ELSE IF "i" \in DOMAIN v
         THEN (IF v.i < 0 THEN <<"-", ToString(-v.i)>> ELSE <<ToString(v.i)>>)
    ELSE v.s

RECURSIVE JoinStrs(_, _)
\* sep.join(parts)
JoinStrs(parts, sep) ==
    IF parts = <<>> THEN <<>>
    ELSE IF Len(parts) = 1 THEN parts[1]
    ELSE parts[1] \o <<sep>> \o JoinStrs(Tail(parts), sep)

\* Mutant of SerializeAsStr: the separator field is emitted as a part
SerializeAsStr_withSeparator(x) ==
    Str(JoinStrs([i \in 1..Len(IdModelFields(x.type)) |->
                    IF IdModelFields(x.type)[i].name = "separator"
                    THEN <<x.separator>>
                    ELSE PyStr(x.fields[IdModelFields(x.type)[i].name])],
                 x.separator))

\* IDModel.serialize_as_str of an instance of any ID type
SerializeAsStr(x) ==
    Str(JoinStrs([i \in 1..Len(UserFields(x.type)) |->
                    PyStr(x.fields[UserFields(x.type)[i].name])],
                 x.separator))

\* The int a str is read as (pydantic's str -> int), or a ValidationError
StrToInt(t) ==
    LET digits(tok) == \E n \in 0..MaxInt : ToString(n) = tok
        value(tok) == CHOOSE n \in 0..MaxInt : ToString(n) = tok
    IN  IF Len(t) = 1 /\ digits(t[1]) THEN PyInt(value(t[1]))
        ELSE IF Len(t) = 2 /\ t[1] = "-" /\ digits(t[2]) THEN PyInt(-value(t[2]))
        ELSE Raised("ValidationError")

\* Mutant of CoerceField: a str given for an int field is kept as a str
CoerceField_noCoercion(f, v) ==
    IF v = NULL THEN (IF f.required THEN Raised("ValidationError") ELSE NULL)
    ELSE v

\* Validation of one supplied value against the declared kind of the field
CoerceField(f, v) ==
    IF v = NULL THEN (IF f.required THEN Raised("ValidationError") ELSE NULL)
    ELSE IF f.kind = "int"
         THEN (IF "i" \in DOMAIN v THEN v ELSE StrToInt(v.s))
    ELSE IF "s" \in DOMAIN v THEN v ELSE Raised("ValidationError")

\* IDModel.check_id: ValueError when only the separator was supplied
CheckId(fields_set) == fields_set # {"separator"}

\* Validation of a dict against an ID type: every declared field is taken
\* from the dict or from its default, then check_id runs.  Keys the type does
\* not declare are ignored.
ValidateDict(type, d) ==
    LET mf == IdModelFields(type)
        names == {mf[i].name : i \in 1..Len(mf)}
        decl(n) == mf[CHOOSE i \in 1..Len(mf) : mf[i].name = n]
        supplied == DOMAIN d \cap names
        val(n) == IF n \in supplied THEN CoerceField(decl(n), d[n])
                  ELSE IF decl(n).required THEN Raised("ValidationError")
                  ELSE FieldDefault(type, n)
    IN  IF \E n \in names : IsRaised(val(n)) THEN Raised("ValidationError")
        ELSE IF ~CheckId(supplied) THEN Raised("ValueError")
        ELSE [type |-> type,
              separator |-> val("separator").s[1],
              fields |-> [n \in names \ {"separator"} |-> val(n)],
              fields_set |-> supplied]

\* The dict of keyword arguments given in some order
KwargsDict(kwargs) ==
    [n \in {kwargs[i].name : i \in 1..Len(kwargs)} |->
        kwargs[CHOOSE i \in 1..Len(kwargs) : kwargs[i].name = n].value]

\* cls(**kwargs)
Construct(type, kwargs) == ValidateDict(type, KwargsDict(kwargs))

\* Mutant of ParseSerializedId: the parts are not counted, missing parts are
\* left out and surplus parts dropped
ParseSerializedId_noCount(type, data) ==
    LET values == Split(data.s, DeclaredSeparator(type))
        fs == UserFields(type)
    IN  [n \in {fs[i].name : i \in 1..Len(fs) \cap 1..Len(values)} |->
            Str(values[CHOOSE i \in 1..Len(fs) : fs[i].name = n])]

\* IDModel.parse_serialized_id on a str: split by the separator the type
\* declares; ValueError unless there is one part per user field; else
\* dict(zip(field_names, values))
ParseSerializedId(type, data) ==
    LET values == Split(data.s, DeclaredSeparator(type))
        fs == UserFields(type)
    IN  IF Len(values) # Len(fs) THEN Raised("ValueError")
        ELSE [n \in UserFieldNames(type) |->
                Str(values[CHOOSE i \in 1..Len(fs) : fs[i].name = n])]

\* cls.model_validate(data) of a str
ValidateStr(type, data) ==
    LET d == ParseSerializedId(type, data) IN
    IF IsRaised(d) THEN d ELSE ValidateDict(type, d)

\* BaseModel.__eq__: same type and same field values
IdEq(a, b) ==
    /\ ~IsRaised(a) /\ ~IsRaised(b)
    /\ a.type = b.type /\ a.separator = b.separator /\ a.fields = b.fields

-----------------------------------------------------------------------------
(* Definition of a unified-record type (EntradaEsquemaUnificado subclass)  *)

\* What a field of the class body may be annotated with: an IDModel
\* subclass, another BaseModel subclass, a scalar class, or a typing
\* construct that is not a class
AnnotationKinds == {"IDModel", "BaseModel", "str", "List"}

IsClass(kind) == kind # "List"

\* issubclass(field_type, IDModel), for a class
IsSubclassIDModel(kind) == kind = "IDModel"

\* issubclass(field_type, BaseModel), for a class
IsSubclassBaseModel(kind) == kind \in {"IDModel", "BaseModel"}

\* The field names the second test of __init_subclass__ lets through
ExemptNames == {"id", "auditoria"}

\* Mutant of InitSubclass: no name is let through
RECURSIVE InitSubclass_noExemption(_)
InitSubclass_noExemption(annotations) ==
    IF annotations = <<>> THEN [defined |-> TRUE]
    ELSE LET name == Head(annotations).name
             kind == Head(annotations).kind
         IN  IF ~IsClass(kind) THEN Raised("TypeError")
             ELSE IF name = "id" /\ ~IsSubclassIDModel(kind) THEN Raised("TypeError")
             ELSE IF ~IsSubclassBaseModel(kind) THEN Raised("TypeError")
             ELSE InitSubclass_noExemption(Tail(annotations))

\* EntradaEsquemaUnificado.__init_subclass__ over cls.__annotations__, the
\* annotations of the class body in order: TypeError, or the class is defined
RECURSIVE InitSubclass(_)
InitSubclass(annotations) ==
    IF annotations = <<>> THEN [defined |-> TRUE]
    ELSE LET name == Head(annotations).name
             kind == Head(annotations).kind
         IN  IF ~IsClass(kind) THEN Raised("TypeError")
             ELSE IF name = "id" /\ ~IsSubclassIDModel(kind) THEN Raised("TypeError")
             ELSE IF ~IsSubclassBaseModel(kind) /\ name \notin ExemptNames
                  THEN Raised("TypeError")
             ELSE InitSubclass(Tail(annotations))

-----------------------------------------------------------------------------
(* Broker client (connections/service_bus.py) and ingress adapters         *)
(* (events/receiver.py, events/timer.py)                                   *)

MAX_RETRIES == 3

ConnectionStrs == {"Endpoint=sb://a", "Endpoint=sb://b"}

\* queue_name of the push adapter and of the pull adapter
PushQueue == "q_push"
PullQueue == "q_pull"
QueueNames == {PushQueue, PullQueue}

\* What an HTTP request carries and what get_data yields: dicts of the event
\* model EventoCliente, two with different ids and one whose id has one part
ElementA == [id |-> Str(<<"CLI001", "-", "PROD001">>), data |-> NULL,
             maestra |-> [info |-> Str(<<"hello">>)], contacto |-> NULL]
ElementB == [ElementA EXCEPT !.id = Str(<<"CLI002", "-", "PROD001">>)]
ElementX == [ElementA EXCEPT !.id = Str(<<"XYZ123">>)]

AdapterElements == {ElementA, ElementB, ElementX}

\* What get_data returns to a timer run
TimerBatches ==
    { <<>>, <<ElementA>>, <<ElementX>>, <<ElementX, ElementA>>,
      <<ElementA, ElementB>>, <<ElementB, ElementA>>, <<ElementX, ElementX>>,
      <<ElementA, ElementX, ElementB>> }

\* processor.process_event(element): the validated EventoBase, or NULL for
\* pydantic's ValidationError
ProcessEvent(element) == ModelValidate("EventoCliente", element)

\* event_validado.model_dump(mode="json", exclude_none=True): the id is
\* rendered, the keys that are None are left out (NULL)
DumpEvent(event) ==
    [id |-> Str(Render(event.id)), data |-> event.data,
     maestra |-> event.maestra, contacto |-> event.contacto]

RECURSIVE ReprFields(_, _)
ReprFields(id, i) ==
    IF i > Len(IdFieldNames) THEN <<>>
    ELSE (IF i = 1 THEN <<>> ELSE <<" ">>)
         \o <<IdFieldNames[i], "=", "'">> \o id[IdFieldNames[i]].s \o <<"'">>
         \o ReprFields(id, i + 1)

\* str(event_validado.id).  IDModel defines no __str__, so this is
\* BaseModel.__str__: the fields that cls.model_fields holds, as name='value'
\* pairs separated by spaces.  The separator is not among them:
\* parse_serialized_id has popped it from cls.model_fields when it parsed the
\* id of the event from its str.
ModelStr(id) == Str(ReprFields(id, 1))

\* One call the client made on a sender, on the broker client or on itself
Ev(ev, arg, obj) == [ev |-> ev, arg |-> arg, obj |-> obj]

NoFrame ==
    [fn |-> "none", status |-> "returned", queue |-> "", data |-> <<>>,
     done |-> 0, message |-> NULL, session_id |-> NULL, attempt |-> 0,
     sends |-> <<>>]

NoSenders == [q \in QueueNames |-> NULL]

NoMessages == [q \in QueueNames |-> <<>>]

\* No adapter function is running
Idle == frame.status \in {"returned", "raised"}

\* ServiceBusClientSingleton.__new__(cls, connection_str): the instance the
\* class holds after the call
New(inst, connection_str) ==
    IF inst = NULL THEN [connection_str |-> connection_str] ELSE inst

\* if attempt == self.MAX_RETRIES - 1
IsLastAttempt_never(attempt) == FALSE

IsLastAttempt(attempt) == attempt = MAX_RETRIES - 1

\* Mutant of GetSender: a sender is created whether or not one is cached
GetSender_alwaysCreate(cache, queue_name, n, created_ok) ==
    IF created_ok
    THEN [raised |-> FALSE, created |-> TRUE,
          sender |-> [queue |-> queue_name, n |-> n + 1],
          senders |-> [cache EXCEPT ![queue_name] = [queue |-> queue_name, n |-> n + 1]]]
    ELSE [raised |-> TRUE, created |-> FALSE, sender |-> NULL, senders |-> cache]

\* get_sender(queue_name): the cached sender, or a new one that is cached;
\* created_ok is whether the broker lets a sender be created
GetSender(cache, queue_name, n, created_ok) ==
    IF cache[queue_name] # NULL
    THEN [raised |-> FALSE, created |-> FALSE, sender |-> cache[queue_name],
          senders |-> cache]
    ELSE IF created_ok
    THEN [raised |-> FALSE, created |-> TRUE,
          sender |-> [queue |-> queue_name, n |-> n + 1],
          senders |-> [cache EXCEPT ![queue_name] = [queue |-> queue_name, n |-> n + 1]]]
    ELSE [raised |-> TRUE, created |-> FALSE, sender |-> NULL, senders |-> cache]

\* Mutant of DropSender: the sender stays in the cache
DropSender_keep(cache, queue_name) == cache

\* del self.senders[queue_name]
DropSender(cache, queue_name) == [cache EXCEPT ![queue_name] = NULL]

\* Mutant of TimerOnInvalid: the ValidationError ends the run
TimerOnInvalid_abort(f) == [f EXCEPT !.status = "raised"]

\* except ValidationError: the element is logged and the loop goes on
TimerOnInvalid(f) == [f EXCEPT !.done = @ + 1]

-----------------------------------------------------------------------------
(* Integration rule (rules/integration/v2.py), with the rule and the       *)
(* unified model of tests/rules/integration/test_integration_rule.py.      *)
(* One rule instance serves every message; one call runs at a time.        *)

max_retries == 3
base_delay == 1

\* IntegrationRule.name and container_name_aud of the tests' fixture
RuleName == "test_topic"

\* The ids of the messages given to run: two that MockIDModel parses and one
\* that holds its separator
IntIds == {Str(<<"123">>), Str(<<"456">>), Str(<<"12", "-", "3">>)}

\* The data of a message: a MockData, or a dict MockData rejects
MockDatas == {[data |-> Str(<<"test">>)], [datas |-> Str(<<"test">>)]}

\* The dict messages given to run
IntMessages == [id : IntIds, data : MockDatas]

\* The ids of the documents of the integration-audit container
IntKeys == {Str(<<"123">>), Str(<<"456">>)}

\* MockEntradaEsquemaUnificado.model_validate(message): id is a MockIDModel
\* parsed from its str, data a MockData
UnifiedModelValidate(message) ==
    LET id == ValidateStr("MockIDModel", message.id) IN
    IF IsRaised(id) \/ "data" \notin DOMAIN message.data
    THEN Raised("ValidationError")
    ELSE [id |-> id, data |-> message.data]

\* The dict {}
EmptyDict == [empty |-> TRUE]

\* Mutant of IntegrationResult: __post_init__ checks nothing
IntegrationResult_unchecked(success, response, bodysent) ==
    [success |-> success, response |-> response, bodysent |-> bodysent]

\* IntegrationResult(success, response, bodysent); __post_init__ raises
\* ValueError on an empty bodysent or response
IntegrationResult(success, response, bodysent) ==
    IF bodysent = EmptyDict \/ response = EmptyDict THEN Raised("ValueError")
    ELSE [success |-> success, response |-> response, bodysent |-> bodysent]

\* isinstance(x, IntegrationResult)
IsIntegrationResult(x) == x # NULL /\ "bodysent" \in DOMAIN x

\* serialize_validation_errors(e.errors()): the JSON list of the errors
SerializeValidationErrors(errors) == Str(<<"[">> \o errors \o <<"]">>)

\* built_valid_json_str_with_aditional_info(error_message, additional_info)
BuiltValidJsonStr(error_message, additional_info) ==
    Str(<<"{", "error_validacion", ":">> \o error_message.s
        \o <<",", "error_validacion_detalle", ":", additional_info, "}">>)

\* Mutant of ValidateModeloUnificado: the record is built from the message
\* without validating its data
ValidateModeloUnificado_noValidate(message) ==
    LET id == ValidateStr("MockIDModel", message.id) IN
    IF IsRaised(id)
    THEN IntegrationResult(FALSE,
             BuiltValidJsonStr(SerializeValidationErrors(<<"id">>),
                               "Mensaje no cumple con el esquema"),
             [error_validacion |-> TRUE])
    ELSE [id |-> id, data |-> message.data]

\* IntegrationRule._validate_modelo_unificado: the validated record, or an
\* IntegrationResult that describes the validation error
ValidateModeloUnificado(message) ==
    LET message_esquema == UnifiedModelValidate(message) IN
    IF IsRaised(message_esquema)
    THEN IntegrationResult(FALSE,
             BuiltValidJsonStr(SerializeValidationErrors(<<"invalid">>),
                               "Mensaje no cumple con el esquema"),
             [error_validacion |-> TRUE])
    ELSE message_esquema

\* What a user's integrate builds for a record: IntegrationResult(...) of a
\* response and of a bodysent made from the record, either of which may be
\* the empty dict; the constructor raises for those
IntegrateResults(record) ==
    {IntegrationResult(r.ok, r.response, r.bodysent) :
        r \in {r \in [ok : BOOLEAN,
                      response : {[status |-> "ok"], [status |-> "rejected"],
                                  EmptyDict},
                      bodysent : {[id |-> SerializeAsStr(record.id)], EmptyDict}] :
                  r.response = [status |-> "ok"] => r.ok}}

\* The exceptions a user's integrate raises: a ValidationError of its output
\* model, with its errors, or another exception
IntegrateErrors ==
    {[raised |-> "ValidationError", errors |-> <<"value_error">>],
     [raised |-> "ValidationError", errors |-> <<"missing">>],
     [raised |-> "HTTPError", errors |-> <<>>]}

\* How one call of integrate ends: it returns a result or None, having set
\* self.body_sent to a payload, to None, or not at all; or it raises.  (No
\* record, no call.)
Outcomes(record) ==
    IF record = NULL THEN {}
    ELSE LET built == IntegrateResults(record)
             raised == {[raised |-> r.raised, errors |-> <<>>] :
                           r \in {r \in built : IsRaised(r)}}
         IN  [kind : {"return"},
              value : {r \in built : ~IsRaised(r)} \cup {NULL},
              body_sent : {"keep", "set", "none"}]
             \cup [kind : {"raise"}, value : IntegrateErrors \cup raised,
                   body_sent : {"keep"}]

\* self.body_sent after a call of integrate
BodySentAfter(body_sent, ended, record) ==
    IF ended.body_sent = "set" THEN [id |-> SerializeAsStr(record.id)]
    ELSE IF ended.body_sent = "none" THEN NULL
    ELSE body_sent

\* Mutant of Delay: the exponent starts at one
Delay_fromTwo(attempt) == base_delay * (2 ^ (attempt + 1))

\* delay = base_delay * (2**attempt)
Delay(attempt) == base_delay * (2 ^ attempt)

\* Mutant of IsRetry: the last attempt sleeps too, and the loop runs out
IsRetry_lastToo(attempt) == attempt < max_retries

\* attempt < max_retries - 1
IsRetry(attempt) == attempt < max_retries - 1

\* Mutant of RetryStep: a ValidationError is raised at once, without a retry
RetryStep_validationNoRetry(attempt, ended) ==
    IF ended.kind = "return"
    THEN [next |-> "return", value |-> ended.value, sleep |-> <<>>]
    ELSE IF IsRetry(attempt) /\ ended.value.raised # "ValidationError"
         THEN [next |-> IF attempt + 1 < max_retries THEN "retry" ELSE "return",
               value |-> NULL, sleep |-> <<Delay(attempt)>>]
    ELSE [next |-> "raise", value |-> ended.value, sleep |-> <<>>]

\* One turn of the for loop of _retry_with_exponential_backoff, func having
\* ended as ended says.  next: the loop goes on ("retry"), the helper
\* returns value ("return"; None when the loop runs out) or raises it
\* ("raise"); sleep: the time.sleep call made
RetryStep(attempt, ended) ==
    IF ended.kind = "return"
    THEN [next |-> "return", value |-> ended.value, sleep |-> <<>>]
    ELSE IF IsRetry(attempt)
         THEN [next |-> IF attempt + 1 < max_retries THEN "retry" ELSE "return",
               value |-> NULL, sleep |-> <<Delay(attempt)>>]
    ELSE [next |-> "raise", value |-> ended.value, sleep |-> <<>>]

\* Mutant of CatchInRun: a ValidationError is raised like any other exception
CatchInRun_reraise(e) == e

\* The except clauses of run: a ValidationError becomes a failed result,
\* any other exception is raised again
CatchInRun(e) ==
    IF e.raised = "ValidationError"
    THEN IntegrationResult(FALSE,
             [error_validacion |-> SerializeValidationErrors(e.errors)],
             [error_validacion |-> TRUE])
    ELSE e

\* The try block of run once the helper has ended (helper: the value it
\* returned, or the exception it raised) and its except clauses: the result
\* handed to register_log, or the exception run raises
AfterHelper(helper, body_sent) ==
    IF IsRaised(helper) THEN CatchInRun(helper)
    ELSE IF body_sent = NULL THEN [raised |-> "ValueError", errors |-> <<>>]
    ELSE helper

\* AuditoriaEntryIntegracion(id, regla, contenido, sucess, response): the
\* entry, fecha_evento being the time it is built at
AuditoriaEntryIntegracion(id, regla, contenido, sucess, response, fecha_evento) ==
    [id |-> id, regla |-> regla, contenido |-> contenido, success |-> sucess,
     response |-> response, fecha_evento |-> fecha_evento]

\* entry.model_dump(mode="json", exclude_none=True): the id is rendered
DumpIntEntry(entry) == [entry EXCEPT !.id = SerializeAsStr(@)]

\* Mutant of RegisterLog: contenido is the rule's body_sent attribute
RegisterLog_bodySentAttr(rule, result, container, now) ==
    IF rule.id_esquema # NULL
    THEN IF result = NULL
         THEN [raised |-> [raised |-> "AttributeError", errors |-> <<>>],
               container |-> container, upserted |-> <<>>]
         ELSE LET entry == AuditoriaEntryIntegracion(rule.id_esquema, rule.name,
                               rule.body_sent, result.success, result.response,
                               now)
              IN  [raised |-> NULL,
                   container |-> UpsertItem(container, DumpIntEntry(entry)),
                   upserted |-> <<DumpIntEntry(entry)>>]
    ELSE [raised |-> [raised |-> "ValueError", errors |-> <<>>],
          container |-> container, upserted |-> <<>>]

\* IntegrationRule.register_log: the container after the upsert and the
\* document upserted, or the exception raised (reading an attribute of a
\* None result; no id_esquema)
RegisterLog(rule, result, container, now) ==
    IF rule.id_esquema # NULL
    THEN IF result = NULL
         THEN [raised |-> [raised |-> "AttributeError", errors |-> <<>>],
               container |-> container, upserted |-> <<>>]
         ELSE LET entry == AuditoriaEntryIntegracion(rule.id_esquema, rule.name,
                               result.bodysent, result.success, result.response,
                               now)
              IN  [raised |-> NULL,
                   container |-> UpsertItem(container, DumpIntEntry(entry)),
                   upserted |-> <<DumpIntEntry(entry)>>]
    ELSE [raised |-> [raised |-> "ValueError", errors |-> <<>>],
          container |-> container, upserted |-> <<>>]

\* IntegrationRule.__init__: no id_esquema, body_sent = {}
NewRule == [name |-> RuleName, id_esquema |-> NULL, body_sent |-> EmptyDict]

\* No call of the rule yet.  fn: the method called; status: "calling" while
\* the helper's loop runs, "returned" or "raised" afterwards; calls: how the
\* integrate calls made so far ended; helper: what the helper returned or
\* raised; result: what the call returned or raised; before: the documents
\* written when the call began
NoRun ==
    [fn |-> "none", status |-> "returned", message |-> NULL, record |-> NULL,
     attempt |-> 0, calls |-> <<>>, helper |-> NULL, result |-> NULL,
     before |-> <<>>]

\* No call of the rule is in progress
RuleIdle == rframe.status \in {"returned", "raised"}

\* The threads of the process that call the shared object at the same time
Threads == {"t1", "t2"}

\* One rule instance shared by the threads, no call of run yet.  rule: the
\* attributes of the instance; calls[t]: the run of thread t ("idle", or
\* "calling" while the helper's loop runs, with the record it validated and
\* the attempt); container: the integration-audit container; written: the
\* entries upserted, each with the rendered id of the record of the run
\* that wrote it
NoParRuns ==
    [rule |-> NewRule,
     calls |-> [t \in Threads |-> [pc |-> "idle", record |-> NULL, attempt |-> 0]],
     container |-> [k \in IntKeys |-> NULL], written |-> <<>>, nRuns |-> 0]

\* A broker client shared by the threads, with no sender cached.  senders:
\* self.senders; closed: the senders close() was called on; calls[t]: the
\* send_message_to_queue call of thread t and the sender get_sender returned
\* to it; sent_on_closed: the sends made on a closed sender; evict_failed: the
\* calls whose del self.senders[queue_name] raised KeyError
NoParSends ==
    [senders |-> NoSenders, nSenders |-> 0, closed |-> {},
     calls |-> [t \in Threads |-> [pc |-> "idle", attempt |-> 0, sender |-> NULL]],
     sent_on_closed |-> {}, evict_failed |-> {}, nCalls |-> 0, nFaults |-> 0]

-----------------------------------------------------------------------------
(* The session-enabled queue of the rule engine and its workers             *)
(* (rules/update.py, process_function with is_sessions_enabled=True;      *)
(* events/receiver.py and events/timer.py publish to it)                   *)

\* The function instances that handle queue messages in parallel
Workers == {"w1", "w2"}

\* An event of the record of ElementA that carries another value of maestra
\* and the contacto subschema
ElementAC == [ElementA EXCEPT !.maestra = [info |-> Str(<<"world">>)],
                              !.contacto = [email |-> Str(<<"a@b">>)]]

\* What the adapters are given in a behaviour of the queue
SessElements == {ElementA, ElementAC, ElementB}

\* The rule the selector of the queue handler holds
SessRule ==
    [model |-> "EventoCliente", processor |-> "MergeProcessor",
     topics |-> {"maestra", "contacto"}]

\* str(event_validado.id) in a process where parse_serialized_id has
\* (popped) or has not yet popped "separator" from cls.model_fields:
\* BaseModel.__str__ shows the fields of __dict__ that cls.model_fields still
\* holds, and separator is the first field of an IDModel
ModelRepr(id, popped) ==
    IF popped THEN ModelStr(id)
    ELSE Str(<<"separator", "=", "'", Separator, "'", " ">> \o ModelStr(id).s)

\* popped: "separator" is no longer in model_fields of the ID class in the
\* adapters' process; queue: the messages not yet delivered, oldest first;
\* workers: the message each worker handles, with the locals of
\* process_function; merges: the merges done, each with the document it read
\* and the document the container held when it wrote
NoSessions ==
    [popped |-> FALSE, queue |-> <<>>, workers |-> [w \in Workers |-> NULL],
     merges |-> <<>>, nPublished |-> 0]

\* The broker's session lock: a message is delivered when no worker holds a
\* message of its session and no older message of its session is waiting
SessionFree(queue, workers, k) ==
    /\ \A j \in 1..(k - 1) : queue[j].session_id # queue[k].session_id
    /\ \A w \in Workers :
          workers[w] # NULL => workers[w].session_id # queue[k].session_id

-----------------------------------------------------------------------------
(* REST integration (rules/integration/strategy.py): one RESTIntegration   *)
(* instance, its cached token, and the calls of integrate that run on it   *)
(* at the same time                                                        *)

\* RESTIntegration.__init__ and a token endpoint that has issued nothing.
\* token: self._token, None or an OAuthTokenPass; issued: how
\* many tokens the endpoint has issued (the n-th has access_token n); valid: those the resource endpoint
\* still accepts; calls[t]: where the call of thread t is ("idle": no call;
\* "auth": the POST of _authenticate is in flight; "request": the resource
\* request is in flight, with the token of its Authorization header)
NoRest ==
    [token |-> NULL, issued |-> 0, valid |-> {},
     calls |-> [t \in Threads |->
                  [pc |-> "idle", token |-> 0, output_model |-> FALSE]],
     log |-> <<>>, nCalls |-> 0]

\* RESTIntegration._get_token: _authenticate is called only when self._token
\* is None; nothing else is looked at
GetToken(token) ==
    IF token = NULL THEN "authenticate" ELSE "cached"

\* response.raise_for_status() of the resource request made with a token
StatusOf(token, valid, failure) ==
    IF token \notin valid THEN 401 ELSE IF failure THEN 400 ELSE 200

-----------------------------------------------------------------------------
(* CosmosDBSingleton (connections/cosmosdb.py), constructed and used by    *)
(* several threads.  COSMOS_CONNECTION_STRING and DATABASE_NAME are not    *)
(* set in the environment.                                                 *)

\* The arguments of a construction: none, or one of two databases
CosmosArgs ==
    {[connection_string |-> NULL, database_name |-> NULL],
     [connection_string |-> Str(<<"mock_connection_string">>),
      database_name |-> Str(<<"mock_database_name">>)],
     [connection_string |-> Str(<<"other_connection_string">>),
      database_name |-> Str(<<"other_database_name">>)]}

\* The class before its first construction.  instance: cls._instance, None
\* or the object's attributes (has_initialized: hasattr(self,
\* "_initialized")); calls[t]: where the call of thread t is; created: the
\* calls of CosmosClient.from_connection_string made; made: the
\* constructions that returned, with the attributes of the instance they
\* returned; raised: the container accesses that raised, with the client
\* they left
NoCosmos ==
    [instance |-> NULL,
     calls |-> [t \in Threads |-> [pc |-> "idle", args |-> NULL]],
     created |-> 0, made |-> <<>>, raised |-> <<>>, nCalls |-> 0]

\* super().__new__(cls): an object with no attributes yet
BareObject ==
    [has_initialized |-> FALSE, client |-> NULL, database |-> NULL,
     connection_string |-> NULL, database_name |-> NULL]

\* The body of __init__ under `if not hasattr(self, "_initialized")`
InitBody(self, args) ==
    [has_initialized |-> TRUE, client |-> NULL, database |-> NULL,
     connection_string |-> args.connection_string,
     database_name |-> args.database_name]

\* _initialize up to the creation of the client: "ready" when the client
\* and the database are set, "raise" (ValueError) without a connection
\* string or a database name, else "create"
Initialize(self) ==
    IF self.client # NULL /\ self.database # NULL THEN "ready"
    ELSE IF self.connection_string = NULL \/ self.database_name = NULL
         THEN "raise"
    ELSE "create"

-----------------------------------------------------------------------------
(* Initial state: a fresh selector and empty containers and topics *)

NoLocals ==
    [msg |-> NULL, event |-> NULL, rule |-> NULL, rule_index |-> 0, read |-> NULL,
     current_data |-> NULL, processed_data |-> NULL, same_objects |-> FALSE,
     changes |-> {}, pending |-> {}, topics_to_notify |-> <<>>]

Init ==
    /\ rules = <<>>
    /\ reg = NULL
    /\ gt = NULL
    /\ unified = [k \in Keys |-> NULL]
    /\ audit = EmptyBag
    /\ sent = [t \in AllTopics |-> <<>>]
    /\ persisted = {}
    /\ pc = "idle"
    /\ h = NoLocals
    /\ pre = [rules |-> <<>>, unified |-> [k \in Keys |-> NULL],
              audit |-> EmptyBag, sent |-> [t \in AllTopics |-> <<>>],
              prev_msg |-> NULL, prev_outcome |-> "none"]
    /\ ops = <<>>
    /\ outcome = "none"
    /\ nHandled = 0
    /\ idop = [op |-> "none"]
    /\ instance = NULL
    /\ client = NULL
    /\ senders = NoSenders
    /\ broker = NoMessages
    /\ frame = NoFrame
    /\ log = <<>>
    /\ nSenders = 0
    /\ nFaults = 0
    /\ nCalls = 0
    /\ irule = NewRule
    /\ rframe = NoRun
    /\ intAudit = [k \in IntKeys |-> NULL]
    /\ written = <<>>
    /\ ilog = <<>>
    /\ nRuns = 0
    /\ diff = [op |-> "none"]
    /\ sess = NoSessions
    /\ rest = NoRest
    /\ cosmos = NoCosmos
    /\ par = NoParSends
    /\ cruns = NoParRuns
    /\ failed = NULL

-----------------------------------------------------------------------------
(* Startup: rule registration.  Rules are registered before the first      *)
(* message is handled.                                                     *)

RegisterRuleCall(rule) ==
    /\ pc = "idle" /\ nHandled = 0 /\ gt = NULL
    /\ Len(rules) < MaxRules
    /\ rules' = RegisterRule(rules, rule)
    /\ reg' = [rule |-> rule, raised |-> ~ValidateRule(rule), before |-> rules]
    /\ UNCHANGED <<gt, unified, audit, sent, persisted, pc, h, pre, ops, outcome,
                   nHandled>>
    /\ UNCHANGED <<idop, busVars, extVars>>

\* Changes a direct call of get_topics_by_changes is given
SampleChanges ==
    LET id == [cliente_id |-> Str(<<"CLI001">>), producto_id |-> Str(<<"PROD001">>)] IN
    { LogChanges(id, "root", NULL, id, "id"),
      LogChanges(id, "maestra", NULL, Str(<<"hello">>), "info"),
      LogChanges(id, "maestra", NULL, Str(<<"x">>), "nombre"),
      LogChanges(id, "contacto", NULL, Str(<<"a@b">>), "email") }

\* A direct call of RuleSelector.get_topics_by_changes on a fresh selector
GetTopicsCall(rule_topics, changes, include_root) ==
    /\ pc = "idle" /\ nHandled = 0 /\ gt = NULL /\ rules = <<>> /\ reg = NULL
    /\ \E result \in ListsOf(GetTopicsByChanges(rule_topics, changes, include_root)) :
          gt' = [rule_topics |-> rule_topics, changes |-> changes,
                 include_root |-> include_root, result |-> result]
    /\ UNCHANGED <<rules, reg, unified, audit, sent, persisted, pc, h, pre, ops,
                   outcome, nHandled>>
    /\ UNCHANGED <<idop, busVars, extVars>>

-----------------------------------------------------------------------------
(* process_function: one queue message *)

\* Lines 200-210: json.loads, select_rule, get_current_entrada, process_rule,
\* detect_changes and the choice of the branch
Receive(msg) ==
    /\ pc = "idle" /\ gt = NULL
    /\ nHandled < MaxMsgs
    /\ nHandled' = nHandled + 1
    /\ pre' = [rules |-> rules, unified |-> unified, audit |-> audit,
               sent |-> sent, prev_msg |-> h.msg, prev_outcome |-> outcome]
    /\ ops' = <<>>
    /\ reg' = NULL
    /\ LET sel == SelectRule(rules, msg) IN
       IF ~sel.found
       THEN /\ h' = [NoLocals EXCEPT !.msg = msg]
            /\ outcome' = "NoHayReglas"
            /\ pc' = "idle"
       ELSE LET rule == rules[sel.index]
                current_data == GetCurrentEntrada(unified, sel.event.id)
                pr == ProcessRule(rule, sel.event, current_data)
                changes == DetectChanges(pr.current, pr.processed, pr.data.id)
            IN  /\ h' = [msg |-> msg, event |-> pr.data, rule |-> rule,
                         rule_index |-> sel.index,
                         read |-> current_data,
                         current_data |-> pr.current,
                         processed_data |-> pr.processed,
                         same_objects |-> pr.same_objects,
                         changes |-> changes, pending |-> changes,
                         topics_to_notify |-> <<>>]
                /\ outcome' = "handling"
                /\ pc' = IF IsNoChanges(changes) THEN "audit_nochange" ELSE "save"
    /\ UNCHANGED <<rules, gt, unified, audit, sent, persisted>>
    /\ UNCHANGED <<idop, busVars, extVars>>

\* Lines 208-210: record_auditoria(changes) of the single entry, return
AuditNoChange ==
    /\ pc = "audit_nochange"
    /\ \E c \in h.pending :
          /\ audit' = CreateItem(audit, DumpEntry(c))
          /\ ops' = Append(ops, [op |-> "create_item", topic |-> "", body |-> DumpEntry(c)])
          /\ h' = [h EXCEPT !.pending = @ \ {c}]
    /\ pc' = "idle"
    /\ outcome' = "ack"
    /\ UNCHANGED <<rules, reg, gt, unified, sent, persisted, pre, nHandled>>
    /\ UNCHANGED <<idop, busVars, extVars>>

\* Mutant of SaveUnifiedModel: the upsert is left out
SaveUnifiedModel_omitted ==
    /\ pc = "save"
    /\ pc' = "audit"
    /\ UNCHANGED <<rules, reg, gt, unified, audit, sent, persisted, h, pre, ops,
                   outcome, nHandled>>
    /\ UNCHANGED <<idop, busVars, extVars>>

\* Line 212: save_unified_model(processed_data)
SaveUnifiedModel ==
    /\ pc = "save"
    /\ unified' = UpsertItem(unified, Dump(h.processed_data))
    /\ persisted' = persisted \cup ({unified'[k] : k \in Keys} \ {NULL})
    /\ ops' = Append(ops, [op |-> "upsert_item", topic |-> "",
                           body |-> Dump(h.processed_data)])
    /\ pc' = "audit"
    /\ UNCHANGED <<rules, reg, gt, audit, sent, h, pre, outcome, nHandled>>
    /\ UNCHANGED <<idop, busVars, extVars>>

\* Where the handler goes when record_auditoria has returned (lines 214-218):
\* the topics are computed, and the handler returns when there are none
AfterAudit(topics_to_notify) ==
    IF topics_to_notify = <<>> THEN "idle" ELSE "publish"

\* Lines 213-216: record_auditoria(changes), one create_item per step, in the
\* order of the list; after the last one, get_topics_by_changes
RecordAuditoria ==
    /\ pc = "audit"
    /\ \E c \in h.pending :
          /\ audit' = CreateItem(audit, DumpEntry(c))
          /\ ops' = Append(ops, [op |-> "create_item", topic |-> "", body |-> DumpEntry(c)])
          /\ IF h.pending = {c}
             THEN \E l \in ListsOf(GetTopicsByChanges(h.rule.topics, h.changes, FALSE)) :
                     /\ h' = [h EXCEPT !.pending = {}, !.topics_to_notify = l]
                     /\ pc' = AfterAudit(l)
                     /\ outcome' = IF AfterAudit(l) = "idle" THEN "ack" ELSE outcome
             ELSE /\ h' = [h EXCEPT !.pending = @ \ {c}]
                  /\ UNCHANGED <<pc, outcome>>
    /\ UNCHANGED <<rules, reg, gt, unified, sent, persisted, pre, nHandled>>
    /\ UNCHANGED <<idop, busVars, extVars>>

\* Lines 217-218: publish_to_topics(processed_data, topics_to_notify), one
\* send per step, in the order of the list
PublishToTopics ==
    /\ pc = "publish"
    /\ sent' = SendMessages(sent, Head(h.topics_to_notify), Dump(h.processed_data))
    /\ ops' = Append(ops, [op |-> "send_messages", topic |-> Head(h.topics_to_notify),
                           body |-> Dump(h.processed_data)])
    /\ h' = [h EXCEPT !.topics_to_notify = Tail(@)]
    /\ pc' = IF Tail(h.topics_to_notify) = <<>> THEN "idle" ELSE "publish"
    /\ outcome' = IF Tail(h.topics_to_notify) = <<>> THEN "ack" ELSE outcome
    /\ UNCHANGED <<rules, reg, gt, unified, audit, persisted, pre, nHandled>>
    /\ UNCHANGED <<idop, busVars, extVars>>

-----------------------------------------------------------------------------

Next ==
    \/ \E rule \in CandidateRules : RegisterRuleCall(rule)
    \/ \E rule_topics \in SUBSET {"root", "maestra", "contacto"},
          changes \in SUBSET SampleChanges, include_root \in BOOLEAN :
          GetTopicsCall(rule_topics, changes, include_root)
    \/ \E msg \in QueueMessages : Receive(msg)
    \/ AuditNoChange
    \/ SaveUnifiedModel
    \/ RecordAuditoria
    \/ PublishToTopics

Spec == Init /\ [][Next]_vars

-----------------------------------------------------------------------------
(* Composite ids and type definitions: the operations applied to inputs    *)

FieldValues(name) ==
    IF name = "separator" THEN {Str(<<"-">>), Str(<<"|">>)}
    ELSE IF name = "producto_id" THEN {Str(<<"XYZ123">>), Str(<<"p", "-", "q">>)}
    ELSE IF name = "lote" THEN {PyInt(45), PyInt(-5)}
    ELSE IF name = "numero_pedido" THEN {Str(<<"abc">>)}
    ELSE IF name = "fecha_pedido"
         THEN {Str(<<"zxc">>), Str(<<"2024", "-", "08">>), Str(<<"b", "|", "c">>)}
    ELSE IF name = "add_info" THEN {PyInt(10), PyInt(-5)}
    ELSE {Str(<<"testid">>), Str(<<"x">>)}

\* The keyword arguments an ID of the type is constructed with: any of the
\* declared fields, in any order
KwargsOf(type) ==
    LET mf == IdModelFields(type)
        names == {mf[i].name : i \in 1..Len(mf)}
        all == UNION {FieldValues(n) : n \in names}
        valuesFor(S) == {v \in [S -> all] : \A n \in S : v[n] \in FieldValues(n)}
    IN  UNION { UNION { { [i \in 1..Len(l) |-> [name |-> l[i], value |-> v[l[i]]]] :
                            v \in valuesFor(S) } : l \in ListsOf(S) } :
                S \in SUBSET names }

\* Strings given to model_validate: those of the tests and some of other shapes
SampleStrs ==
    { Str(<<"XYZ123", "-", "45">>), Str(<<"XYZ123">>), Str(<<"abc", "-", "zxc", "-", "10">>),
      Str(<<"ORD6789", "|", "2024", "-", "08", "-", "21", "|", "10">>),
      Str(<<"abc", "|", "zxc", "|", "10">>), Str(<<"a", "-", "b", "-", "c", "-", "d">>),
      Str(<<>>) }

\* cls(**kwargs) and, when it succeeds, model_dump of the instance
ConstructCall(type, kwargs) ==
    /\ idop.op = "none"
    /\ LET x == Construct(type, kwargs) IN
       idop' = [op |-> "construct", type |-> type, kwargs |-> kwargs,
                data |-> NULL, source |-> NULL, result |-> x,
                rendered |-> IF IsRaised(x) THEN NULL ELSE SerializeAsStr(x)]
    /\ UNCHANGED <<ruleVars, busVars, extVars>>

\* cls.model_validate(data) of a given str
ValidateSample(type, data) ==
    /\ idop.op = "none"
    /\ idop' = [op |-> "validate", type |-> type, kwargs |-> <<>>,
                data |-> data, source |-> NULL, result |-> ValidateStr(type, data),
                rendered |-> NULL]
    /\ UNCHANGED <<ruleVars, busVars, extVars>>

\* cls.model_validate(data) of the str an instance was rendered to
ValidateRendered(type) ==
    /\ idop.op = "construct" /\ ~IsRaised(idop.result)
    /\ idop' = [op |-> "validate", type |-> type, kwargs |-> <<>>,
                data |-> idop.rendered, source |-> idop.result,
                result |-> ValidateStr(type, idop.rendered), rendered |-> NULL]
    /\ UNCHANGED <<ruleVars, busVars, extVars>>

\* The class bodies of the unified-record types defined
ClassBodies ==
    LET names == {"id", "maestra", "auditoria"} IN
    UNION { UNION { { [i \in 1..Len(l) |-> [name |-> l[i], kind |-> k[l[i]]]] :
                        k \in [S -> AnnotationKinds] } : l \in ListsOf(S) } :
            S \in SUBSET names }

\* class X(EntradaEsquemaUnificado) with the given annotations
DefineSubclass(annotations) ==
    /\ idop.op = "none"
    /\ idop' = [op |-> "define", type |-> "", kwargs |-> annotations,
                data |-> NULL, source |-> NULL, result |-> InitSubclass(annotations),
                rendered |-> NULL]
    /\ UNCHANGED <<ruleVars, busVars, extVars>>

IdNext ==
    \/ \E type \in IdTypes : \E kwargs \in KwargsOf(type) : ConstructCall(type, kwargs)
    \/ \E type \in IdTypes, data \in SampleStrs : ValidateSample(type, data)
    \/ \E type \in IdTypes : ValidateRendered(type)
    \/ \E annotations \in ClassBodies : DefineSubclass(annotations)

IdSpec == Init /\ [][IdNext]_vars

-----------------------------------------------------------------------------
(* Broker client and ingress adapters: constructor, receive_event,         *)
(* timer_function, send_message_to_queue and close().  One function runs   *)
(* at a time; broker and log are those of the function in hand.            *)

\* ServiceBusClientSingleton(connection_str).  init_ok: whether
\* _initialize_client gets a client within its MAX_RETRIES tries.
NewSingleton(connection_str, init_ok) ==
    /\ Idle
    /\ instance' = New(instance, connection_str)
    /\ IF instance = NULL
       THEN /\ ~init_ok => nFaults < MaxFaults
            /\ client' = IF init_ok THEN [conn |-> connection_str] ELSE NULL
            /\ nFaults' = IF init_ok THEN nFaults ELSE nFaults + 1
            /\ log' = <<Ev("new", connection_str,
                           IF init_ok THEN instance' ELSE Raised("ServiceBusError"))>>
            /\ frame' = [NoFrame EXCEPT !.fn = "__new__",
                            !.status = IF init_ok THEN "returned" ELSE "raised"]
       ELSE /\ init_ok
            /\ log' = <<Ev("new", connection_str, instance)>>
            /\ frame' = [NoFrame EXCEPT !.fn = "__new__"]
            /\ UNCHANGED <<client, nFaults>>
    /\ broker' = NoMessages
    /\ UNCHANGED <<senders, nSenders, nCalls, ruleVars, idop,
                 extVars>>

\* receive_event(req), up to the call of send_message_to_queue
ReceiveEvent(event_data) ==
    /\ Idle /\ instance # NULL /\ nCalls < MaxCalls
    /\ nCalls' = nCalls + 1
    /\ LET event == ProcessEvent(event_data) IN
       frame' = IF event = NULL
                THEN [NoFrame EXCEPT !.fn = "receive_event", !.status = "raised",
                         !.queue = PushQueue, !.data = <<event_data>>]
                ELSE [NoFrame EXCEPT !.fn = "receive_event", !.status = "sending",
                         !.queue = PushQueue, !.data = <<event_data>>,
                         !.message = DumpEvent(event),
                         !.session_id = ModelStr(event.id)]
    /\ log' = <<>>
    /\ broker' = NoMessages
    /\ UNCHANGED <<instance, client, senders, nSenders, nFaults, ruleVars, idop,
                 extVars>>

\* timer_function(mytimer): event_data = self.processor.get_data()
TimerFunction(event_data) ==
    /\ Idle /\ instance # NULL /\ nCalls < MaxCalls
    /\ nCalls' = nCalls + 1
    /\ frame' = [NoFrame EXCEPT !.fn = "timer_function", !.status = "loop",
                    !.queue = PullQueue, !.data = event_data]
    /\ log' = <<>>
    /\ broker' = NoMessages
    /\ UNCHANGED <<instance, client, senders, nSenders, nFaults, ruleVars, idop,
                 extVars>>

\* The for loop of timer_function: the next element, up to the call of
\* send_message_to_queue or to the except clause; the return after the last
TimerStep ==
    /\ frame.fn = "timer_function" /\ frame.status = "loop"
    /\ IF frame.done = Len(frame.data)
       THEN frame' = [frame EXCEPT !.status = "returned"]
       ELSE LET event == ProcessEvent(frame.data[frame.done + 1]) IN
            IF event = NULL
            THEN frame' = TimerOnInvalid(frame)
            ELSE frame' = [frame EXCEPT !.status = "sending",
                              !.message = DumpEvent(event),
                              !.session_id = ModelStr(event.id),
                              !.attempt = 0, !.sends = <<>>]
    /\ UNCHANGED <<instance, client, senders, broker, log, nSenders, nFaults,
                   nCalls, ruleVars, idop,
                 extVars>>

\* One turn of the for loop of send_message_to_queue.  gs: what get_sender
\* meets when it has to create a sender ("ok", "init_error": no client could
\* be initialised, "sender_error": get_queue_sender failed MAX_RETRIES times);
\* sm_ok: whether send_messages succeeds; ri_ok: whether the
\* _initialize_client() of the except clause gets a client.
SendAttempt(gs, sm_ok, ri_ok) ==
    /\ frame.status = "sending"
    /\ LET q == frame.queue
           conn == [conn |-> instance.connection_str]
           got == GetSender(senders, q, nSenders, gs = "ok")
           sent_ok == ~got.raised /\ sm_ok
           last == IsLastAttempt(frame.attempt)
           reinit_fails == ~sent_ok /\ ~last /\ ~ri_ok
           faults == (IF got.raised THEN 1 ELSE 0)
                     + (IF ~got.raised /\ ~sm_ok THEN 1 ELSE 0)
                     + (IF reinit_fails THEN 1 ELSE 0)
           ensured == IF ~got.created /\ ~got.raised THEN client
                      ELSE IF gs = "init_error" THEN client
                      ELSE conn
           obj == [sender |-> got.sender, cached |-> senders[q]]
           calls == (IF got.created THEN <<Ev("create_sender", q, obj)>> ELSE <<>>)
                    \o (IF got.raised THEN <<>>
                        ELSE <<Ev(IF sm_ok THEN "send_ok" ELSE "send_fail", q, obj)>>)
       IN  /\ got.created \/ got.raised \/ gs = "ok"
           /\ got.raised => sm_ok
           /\ (sent_ok \/ last) => ri_ok
           /\ nFaults + faults <= MaxFaults
           /\ nFaults' = nFaults + faults
           /\ nSenders' = IF got.created THEN nSenders + 1 ELSE nSenders
           /\ IF sent_ok
              THEN /\ broker' = [broker EXCEPT ![q] =
                                    Append(@, [body |-> frame.message,
                                               session_id |-> frame.session_id])]
                   /\ log' = log \o calls
                   /\ senders' = got.senders
                   /\ client' = ensured
                   /\ frame' = [frame EXCEPT
                                   !.sends = Append(@, "ok"),
                                   !.status = IF frame.fn = "timer_function"
                                              THEN "loop" ELSE "returned",
                                   !.done = @ + 1]
              ELSE IF last \/ reinit_fails
              THEN /\ log' = log \o calls
                   /\ senders' = got.senders
                   /\ client' = ensured
                   /\ frame' = [frame EXCEPT
                                   !.sends = IF got.raised THEN @ ELSE Append(@, "error"),
                                   !.status = "raised"]
                   /\ UNCHANGED broker
              ELSE /\ log' = log \o calls
                             \o <<Ev("init_client", q,
                                     [sender |-> NULL, cached |-> got.senders[q]])>>
                             \o (IF got.senders[q] # NULL
                                 THEN <<Ev("close_sender", q,
                                           [sender |-> got.senders[q],
                                            cached |-> got.senders[q]])>>
                                 ELSE <<>>)
                   /\ senders' = DropSender(got.senders, q)
                   /\ client' = conn
                   /\ frame' = [frame EXCEPT
                                   !.sends = IF got.raised THEN @ ELSE Append(@, "error"),
                                   !.attempt = @ + 1]
                   /\ UNCHANGED broker
    /\ UNCHANGED <<instance, nCalls, ruleVars, idop,
                 extVars>>

\* close(): every cached sender is closed, then the client; the cache is
\* cleared and the client forgotten
Close ==
    /\ Idle /\ instance # NULL
    /\ \E order \in ListsOf({q \in QueueNames : senders[q] # NULL}) :
          log' = <<Ev("close", "", [senders |-> senders, client |-> client])>>
                 \o [i \in 1..Len(order) |->
                        Ev("close_sender", order[i],
                           [sender |-> senders[order[i]], cached |-> senders[order[i]]])]
                 \o (IF client # NULL THEN <<Ev("close_client", "", client)>> ELSE <<>>)
    /\ senders' = NoSenders
    /\ client' = NULL
    /\ frame' = [NoFrame EXCEPT !.fn = "close"]
    /\ broker' = NoMessages
    /\ UNCHANGED <<instance, nSenders, nFaults, nCalls, ruleVars, idop,
                 extVars>>

BusNext ==
    \/ \E connection_str \in ConnectionStrs, init_ok \in BOOLEAN :
          NewSingleton(connection_str, init_ok)
    \/ \E event_data \in AdapterElements : ReceiveEvent(event_data)
    \/ \E event_data \in TimerBatches : TimerFunction(event_data)
    \/ TimerStep
    \/ \E gs \in {"ok", "init_error", "sender_error"}, sm_ok \in BOOLEAN, ri_ok \in BOOLEAN :
          SendAttempt(gs, sm_ok, ri_ok)
    \/ Close

BusSpec == Init /\ [][BusNext]_vars

-----------------------------------------------------------------------------
(* Integration rule: run and register_log of one rule instance, one call   *)
(* at a time; ilog is that of the call in hand.                            *)

\* run(message, cosmos_client) up to the first call of integrate: the message
\* is validated, and run raises ValueError when it is not valid
Run(message) ==
    /\ RuleIdle /\ nRuns < MaxRuns
    /\ nRuns' = nRuns + 1
    /\ ilog' = <<>>
    /\ LET message_esquema == ValidateModeloUnificado(message) IN
       IF IsIntegrationResult(message_esquema)
       THEN /\ rframe' = [NoRun EXCEPT !.fn = "run", !.status = "raised",
                             !.message = message,
                             !.result = [raised |-> "ValueError", errors |-> <<>>],
                             !.before = written]
            /\ UNCHANGED irule
       ELSE /\ rframe' = [NoRun EXCEPT !.fn = "run", !.status = "calling",
                             !.message = message, !.record = message_esquema,
                             !.before = written]
            /\ irule' = [irule EXCEPT !.id_esquema = message_esquema.id]
    /\ UNCHANGED <<intAudit, written, ruleVars, idop, busVars, diff, sess, newVars>>

\* One turn of the helper's loop: integrate is called and ends as ended says.
\* When the helper is done, the rest of run: the body_sent test, the except
\* clauses, register_log and the return.
IntegrateCall(ended) ==
    /\ rframe.status = "calling"
    /\ LET step == RetryStep(rframe.attempt, ended)
           body_sent == BodySentAfter(irule.body_sent, ended, rframe.record)
           rule == [irule EXCEPT !.body_sent = body_sent]
           events == <<Ev("integrate", rframe.attempt, ended)>>
                     \o [i \in 1..Len(step.sleep) |->
                            Ev("sleep", rframe.attempt, step.sleep[i])]
           fr == [rframe EXCEPT !.calls = Append(@, ended)]
       IN  /\ irule' = rule
           /\ IF step.next = "retry"
              THEN /\ rframe' = [fr EXCEPT !.attempt = @ + 1]
                   /\ ilog' = ilog \o events
                   /\ UNCHANGED <<intAudit, written>>
              ELSE LET helper == step.value
                       result == AfterHelper(helper, body_sent)
                       logged == RegisterLog(rule, result, intAudit, Len(written) + 1)
                   IN  IF IsRaised(result) \/ logged.raised # NULL
                       THEN /\ rframe' = [fr EXCEPT !.status = "raised",
                                             !.helper = helper,
                                             !.result = IF IsRaised(result)
                                                        THEN result ELSE logged.raised]
                            /\ ilog' = ilog \o events
                            /\ UNCHANGED <<intAudit, written>>
                       ELSE /\ rframe' = [fr EXCEPT !.status = "returned",
                                             !.helper = helper,
                                             !.result = result]
                            /\ ilog' = ilog \o events
                                       \o <<Ev("upsert_item", rframe.attempt,
                                               logged.upserted[1])>>
                            /\ intAudit' = logged.container
                            /\ written' = written \o logged.upserted
    /\ UNCHANGED <<nRuns, ruleVars, idop, busVars, diff, sess, newVars>>

\* The results register_log is called with directly
DirectResults ==
    {IntegrationResult(TRUE, [status |-> "success"], [id |-> Str(<<"test">>)])}

\* register_log(result, cosmos_client) called directly, as the tests do
RegisterLogCall(result) ==
    /\ RuleIdle /\ nRuns < MaxRuns
    /\ nRuns' = nRuns + 1
    /\ LET logged == RegisterLog(irule, result, intAudit, Len(written) + 1) IN
       /\ rframe' = [NoRun EXCEPT !.fn = "register_log",
                        !.status = IF logged.raised # NULL THEN "raised" ELSE "returned",
                        !.result = IF logged.raised # NULL THEN logged.raised ELSE result,
                        !.before = written]
       /\ ilog' = [i \in 1..Len(logged.upserted) |-> Ev("upsert_item", 0, logged.upserted[i])]
       /\ intAudit' = logged.container
       /\ written' = written \o logged.upserted
    /\ UNCHANGED <<irule, ruleVars, idop, busVars, diff, sess, newVars>>

IntNext ==
    \/ \E message \in IntMessages : Run(message)
    \/ \E ended \in Outcomes(rframe.record) : IntegrateCall(ended)
    \/ \E result \in DirectResults : RegisterLogCall(result)

IntSpec == Init /\ [][IntNext]_vars

-----------------------------------------------------------------------------
(* detect_changes called on its own, on any pair of records                *)

\* Unified records: an id, subschemas or None, fs the fields set
UnifiedRecords ==
    {[id |-> i, maestra |-> m, contacto |-> c,
      fs |-> {"id"} \cup (IF m # NULL THEN {"maestra"} ELSE {})
                    \cup (IF c # NULL THEN {"contacto"} ELSE {})] :
        i \in IdModels, m \in Maestras \cup {NULL}, c \in Contactos \cup {NULL}}

\* self.detect_changes(current_data, updated_data, id_model)
DetectChangesCall(current_data, updated_data, id_model) ==
    /\ diff' = [op |-> "detect_changes", current_data |-> current_data,
                updated_data |-> updated_data, id_model |-> id_model,
                changes |-> DetectChanges(current_data, updated_data, id_model)]
    /\ UNCHANGED <<ruleVars, idop, busVars, intVars, sess, newVars>>

DiffNext ==
    \E current_data \in UnifiedRecords \cup {NULL}, updated_data \in UnifiedRecords :
        DetectChangesCall(current_data, updated_data, updated_data.id)

DiffSpec == Init /\ [][DiffNext]_vars

-----------------------------------------------------------------------------
(* Adapters publishing to the session-enabled queue, and workers handling  *)
(* its messages in parallel                                                *)

\* What the actions of the queue leave alone
sessRest == <<rules, reg, gt, persisted, pc, h, pre, ops, outcome, nHandled,
              idop, busVars, intVars, diff, newVars>>

\* receive_event, or one element of timer_function, whose send succeeds.
\* from_str: process_event builds the id of the event from its str (and
\* parse_serialized_id runs) rather than from keyword arguments.
SessPublish(element, from_str) ==
    /\ sess.nPublished < MaxPublished
    /\ LET event_validado == ProcessEvent(element)
           popped == sess.popped \/ from_str
       IN  sess' = [sess EXCEPT
                       !.popped = popped,
                       !.nPublished = @ + 1,
                       !.queue = Append(@,
                           [body |-> DumpEvent(event_validado),
                            session_id |-> ModelRepr(event_validado.id, popped)])]
    /\ UNCHANGED <<unified, audit, sent, sessRest>>

\* Lines 200-203 of process_function on the k-th waiting message: json.loads,
\* select_rule, get_current_entrada
SessTake(w, k) ==
    /\ sess.workers[w] = NULL
    /\ k \in 1..Len(sess.queue)
    /\ SessionFree(sess.queue, sess.workers, k)
    /\ LET msg == sess.queue[k]
           sel == SelectRule(<<SessRule>>, msg.body)
       IN  /\ sel.found
           /\ sess' = [sess EXCEPT
                  !.queue = SubSeq(@, 1, k - 1) \o SubSeq(@, k + 1, Len(@)),
                  !.workers[w] =
                      [session_id |-> msg.session_id, event |-> sel.event,
                       read |-> unified[Render(sel.event.id)],
                       current_data |-> GetCurrentEntrada(unified, sel.event.id)]]
    /\ UNCHANGED <<unified, audit, sent, sessRest>>

\* Lines 204-218 of process_function: process_rule, detect_changes, then
\* either the audit of the no-op, or save_unified_model, record_auditoria and
\* publish_to_topics; the message is completed
SessFinish(w) ==
    /\ sess.workers[w] # NULL
    /\ LET f == sess.workers[w]
           pr == ProcessRule(SessRule, f.event, f.current_data)
           changes == DetectChanges(pr.current, pr.processed, pr.data.id)
           topics_to_notify == GetTopicsByChanges(SessRule.topics, changes, FALSE)
           key == Render(f.event.id)
       IN  /\ audit' = audit (+) SetToBag({DumpEntry(c) : c \in changes})
           /\ IF IsNoChanges(changes)
              THEN UNCHANGED <<unified, sent>>
              ELSE /\ unified' = UpsertItem(unified, Dump(pr.processed))
                   /\ sent' = [t \in AllTopics |->
                                 IF t \in topics_to_notify
                                 THEN Append(sent[t], Dump(pr.processed))
                                 ELSE sent[t]]
           /\ sess' = [sess EXCEPT
                  !.workers[w] = NULL,
                  !.merges = Append(@, [id |-> key, read |-> f.read,
                                        held |-> unified[key],
                                        saved |-> ~IsNoChanges(changes)])]
    /\ UNCHANGED sessRest

SessNext ==
    \/ \E element \in SessElements, from_str \in BOOLEAN :
          SessPublish(element, from_str)
    \/ \E w \in Workers, k \in 1..MaxPublished : SessTake(w, k)
    \/ \E w \in Workers : SessFinish(w)

SessSpec == Init /\ [][SessNext]_vars

-----------------------------------------------------------------------------
(* RESTIntegration.integrate called by several threads *)

\* The rest of integrate once _get_token has returned token: the resource
\* request is sent, unless output_model is None (the event is ignored)
AfterGetToken(r, t, token, output_model) ==
    IF output_model
    THEN [r EXCEPT !.calls[t] = [pc |-> "request", token |-> token,
                                 output_model |-> TRUE],
                   !.log = Append(@, Ev("request", t, token))]
    ELSE [r EXCEPT !.calls[t] = [pc |-> "idle", token |-> 0,
                                 output_model |-> FALSE],
                   !.log = Append(@, Ev("ignored", t, token))]

\* integrate(output_model) begins on thread t: _get_token up to its first
\* HTTP call
RestIntegrate(t, output_model) ==
    /\ rest.calls[t].pc = "idle"
    /\ rest.nCalls < MaxIntegrates
    /\ LET began == [rest EXCEPT !.nCalls = @ + 1,
                                 !.log = Append(@, Ev("integrate", t, rest.token))]
       IN  IF GetToken(rest.token) = "authenticate"
           THEN rest' = [began EXCEPT
                            !.calls[t] = [pc |-> "auth", token |-> 0,
                                          output_model |-> output_model],
                            !.log = Append(@, Ev("authenticate", t, rest.token))]
           ELSE rest' = AfterGetToken(began, t, rest.token.access_token,
                                      output_model)
    /\ UNCHANGED <<ruleVars, idop, busVars, intVars, diff, sess, cosmos, par,
                   cruns, failed>>

\* The token endpoint answers the POST of _authenticate: on success
\* self._token is the new token and _get_token returns self._token's access
\* token; otherwise raise_for_status raises and integrate ends
RestAuthenticated(t, ok) ==
    /\ rest.calls[t].pc = "auth"
    /\ IF ok
       THEN LET new == rest.issued + 1
                got == [rest EXCEPT !.issued = new, !.valid = @ \cup {new},
                                    !.token = [access_token |-> new],
                                    !.log = Append(@, Ev("token", t, new))]
            IN  rest' = AfterGetToken(got, t, new, rest.calls[t].output_model)
       ELSE rest' = [rest EXCEPT
                        !.calls[t] = [pc |-> "idle", token |-> 0,
                                      output_model |-> FALSE],
                        !.log = Append(@, Ev("raise", t, "HTTPError"))]
    /\ UNCHANGED <<ruleVars, idop, busVars, intVars, diff, sess, cosmos, par,
                   cruns, failed>>

\* The resource endpoint answers: integrate returns the processed response,
\* or raise_for_status raises HTTPError
RestResponse(t, failure) ==
    /\ rest.calls[t].pc = "request"
    /\ rest' = [rest EXCEPT
                   !.calls[t] = [pc |-> "idle", token |-> 0,
                                 output_model |-> FALSE],
                   !.log = Append(@, Ev("response", t,
                               [token |-> rest.calls[t].token,
                                status |-> StatusOf(rest.calls[t].token,
                                                    rest.valid, failure)]))]
    /\ UNCHANGED <<ruleVars, idop, busVars, intVars, diff, sess, cosmos, par,
                   cruns, failed>>

\* The tokens issued so far expire at the resource endpoint
RestExpire ==
    /\ rest.valid # {}
    /\ rest' = [rest EXCEPT !.valid = {}]
    /\ UNCHANGED <<ruleVars, idop, busVars, intVars, diff, sess, cosmos, par,
                   cruns, failed>>

RestNext ==
    \/ \E t \in Threads, output_model \in BOOLEAN : RestIntegrate(t, output_model)
    \/ \E t \in Threads, ok \in BOOLEAN : RestAuthenticated(t, ok)
    \/ \E t \in Threads, failure \in BOOLEAN : RestResponse(t, failure)
    \/ RestExpire

RestSpec == Init /\ [][RestNext]_vars

-----------------------------------------------------------------------------
(* CosmosDBSingleton constructed and used by several threads *)

\* The attributes a construction is judged by
ConfigOf(self) ==
    [connection_string |-> self.connection_string,
     database_name |-> self.database_name]

\* CosmosDBSingleton(connection_string, database_name) on thread t: __new__
\* (the instance is created under the lock when there is none) and the
\* hasattr test of __init__; the call returns when the attribute is there
CosmosConstruct(t, args) ==
    /\ cosmos.calls[t].pc = "idle"
    /\ cosmos.nCalls < MaxCosmosCalls
    /\ LET self == IF cosmos.instance = NULL THEN BareObject ELSE cosmos.instance
           began == [cosmos EXCEPT !.instance = self, !.nCalls = @ + 1]
       IN  IF self.has_initialized
           THEN cosmos' = [began EXCEPT
                              !.made = Append(@, [args |-> args, got |-> ConfigOf(self)])]
           ELSE cosmos' = [began EXCEPT
                              !.calls[t] = [pc |-> "init", args |-> args]]
    /\ UNCHANGED <<ruleVars, idop, busVars, intVars, diff, sess, rest, par,
                   cruns, failed>>

\* The assignments of __init__, and its return
CosmosInit(t) ==
    /\ cosmos.calls[t].pc = "init"
    /\ LET self == InitBody(cosmos.instance, cosmos.calls[t].args) IN
       cosmos' = [cosmos EXCEPT
                     !.instance = self,
                     !.calls[t] = [pc |-> "idle", args |-> NULL],
                     !.made = Append(@, [args |-> cosmos.calls[t].args,
                                         got |-> ConfigOf(self)])]
    /\ UNCHANGED <<ruleVars, idop, busVars, intVars, diff, sess, rest, par,
                   cruns, failed>>

\* get_container_client on the instance, on thread t: the tests of
\* _initialize.  The call returns a container, raises, or goes on to create
\* the client
CosmosGetContainer(t) ==
    /\ cosmos.calls[t].pc = "idle"
    /\ cosmos.nCalls < MaxCosmosCalls
    /\ cosmos.instance # NULL /\ cosmos.instance.has_initialized
    /\ LET began == [cosmos EXCEPT !.nCalls = @ + 1]
           todo == Initialize(cosmos.instance)
       IN  cosmos' =
             IF todo = "ready" THEN began
             ELSE IF todo = "raise"
                  THEN [began EXCEPT
                           !.raised = Append(@, [client |-> cosmos.instance.client])]
             ELSE [began EXCEPT !.calls[t] = [pc |-> "create", args |-> NULL]]
    /\ UNCHANGED <<ruleVars, idop, busVars, intVars, diff, sess, rest, par,
                   cruns, failed>>

\* CosmosClient.from_connection_string, get_database_client and the
\* assignments of _initialize; the container is returned
CosmosCreate(t) ==
    /\ cosmos.calls[t].pc = "create"
    /\ cosmos' = [cosmos EXCEPT
                     !.created = @ + 1,
                     !.instance.client = [n |-> cosmos.created + 1],
                     !.instance.database = [n |-> cosmos.created + 1],
                     !.calls[t] = [pc |-> "idle", args |-> NULL]]
    /\ UNCHANGED <<ruleVars, idop, busVars, intVars, diff, sess, rest, par,
                   cruns, failed>>

CosmosNext ==
    \/ \E t \in Threads, args \in CosmosArgs : CosmosConstruct(t, args)
    \/ \E t \in Threads : CosmosInit(t)
    \/ \E t \in Threads : CosmosGetContainer(t)
    \/ \E t \in Threads : CosmosCreate(t)

CosmosSpec == Init /\ [][CosmosNext]_vars

-----------------------------------------------------------------------------
(* A handling that fails after its upsert, and the redelivery *)

\* record_auditoria (a create_item) or publish_to_topics (a send) raises:
\* process_function has no except clause, the exception leaves the handler,
\* the message is not completed and the broker delivers it again (Receive)
HandlerFails ==
    /\ pc \in {"audit", "publish"}
    /\ failed = NULL
    /\ failed' = [msg |-> h.msg, at |-> pc, changes |-> h.changes,
                  processed_data |-> h.processed_data,
                  topics |-> GetTopicsByChanges(h.rule.topics, h.changes, FALSE)]
    /\ pc' = "idle"
    /\ outcome' = "failed"
    /\ UNCHANGED <<rules, reg, gt, unified, audit, sent, persisted, h, pre, ops,
                   nHandled>>
    /\ UNCHANGED <<idop, busVars, intVars, diff, sess, rest, cosmos, par, cruns>>

RedeliverNext ==
    \/ Next
    \/ HandlerFails

RedeliverSpec == Init /\ [][RedeliverNext]_vars

-----------------------------------------------------------------------------
(* IntegrationRule.run called by several threads on one rule instance *)

\* run(message, cosmos_client) begins on thread t: the message is validated,
\* self.id_esquema is assigned, and the helper calls integrate
ParRun(t, message) ==
    /\ cruns.calls[t].pc = "idle"
    /\ cruns.nRuns < MaxParRuns
    /\ LET message_esquema == ValidateModeloUnificado(message)
           began == [cruns EXCEPT !.nRuns = @ + 1]
       IN  cruns' =
             IF IsIntegrationResult(message_esquema) THEN began
             ELSE [began EXCEPT
                      !.rule.id_esquema = message_esquema.id,
                      !.calls[t] = [pc |-> "calling", record |-> message_esquema,
                                    attempt |-> 0]]
    /\ UNCHANGED <<ruleVars, idop, busVars, intVars, diff, sess, rest, cosmos,
                   par, failed>>

\* A call of integrate of the run of thread t ends as ended says: one turn
\* of the helper's loop and, when the helper is done, the rest of run, with
\* register_log
ParIntegrate(t, ended) ==
    /\ cruns.calls[t].pc = "calling"
    /\ LET f == cruns.calls[t]
           step == RetryStep(f.attempt, ended)
           body_sent == BodySentAfter(cruns.rule.body_sent, ended, f.record)
           rule == [cruns.rule EXCEPT !.body_sent = body_sent]
           result == AfterHelper(step.value, body_sent)
           logged == RegisterLog(rule, result, cruns.container,
                                 Len(cruns.written) + 1)
           done == [cruns EXCEPT
                       !.rule = rule,
                       !.calls[t] = [pc |-> "idle", record |-> NULL, attempt |-> 0]]
       IN  cruns' =
             IF step.next = "retry"
             THEN [cruns EXCEPT !.rule = rule, !.calls[t].attempt = @ + 1]
             ELSE IF IsRaised(result) \/ logged.raised # NULL THEN done
             ELSE [done EXCEPT
                      !.container = logged.container,
                      !.written = Append(@, [entry |-> logged.upserted[1],
                                             own |-> SerializeAsStr(f.record.id)])]
    /\ UNCHANGED <<ruleVars, idop, busVars, intVars, diff, sess, rest, cosmos,
                   par, failed>>

ParRunNext ==
    \/ \E t \in Threads, message \in IntMessages : ParRun(t, message)
    \/ \E t \in Threads :
          \E ended \in Outcomes(cruns.calls[t].record) : ParIntegrate(t, ended)

ParRunSpec == Init /\ [][ParRunNext]_vars

-----------------------------------------------------------------------------
(* send_message_to_queue called by several threads on one client, for one  *)
(* queue                                                                   *)

\* What the steps of the threads' sends leave alone
parRest == <<ruleVars, idop, busVars, intVars, diff, sess, rest, cosmos, cruns,
             failed>>

\* send_message_to_queue(message, session_id, PushQueue) begins on thread t
ParSend(t) ==
    /\ par.calls[t].pc = "idle"
    /\ par.nCalls < MaxParSends
    /\ par' = [par EXCEPT !.nCalls = @ + 1,
                          !.calls[t] = [pc |-> "get", attempt |-> 0,
                                        sender |-> NULL]]
    /\ UNCHANGED parRest

\* sender = self.get_sender(queue_name): the cached sender, or a new one
\* that is cached
ParGetSender(t) ==
    /\ par.calls[t].pc = "get"
    /\ LET got == GetSender(par.senders, PushQueue, par.nSenders, TRUE) IN
       par' = [par EXCEPT
                  !.senders = got.senders,
                  !.nSenders = IF got.created THEN @ + 1 ELSE @,
                  !.calls[t].pc = "send",
                  !.calls[t].sender = got.sender]
    /\ UNCHANGED parRest

\* sender.send_messages(msg): it raises on a closed sender, or when the
\* broker fails it (sm_ok false); the call returns, raises on the last
\* attempt, or goes on to sleep and to reinitialize the client
ParSendMessages(t, sm_ok) ==
    /\ par.calls[t].pc = "send"
    /\ LET f == par.calls[t]
           is_closed == f.sender \in par.closed
           ok == sm_ok /\ ~is_closed
           fault == IF ~sm_ok /\ ~is_closed THEN 1 ELSE 0
           tried == [par EXCEPT
                        !.nFaults = @ + fault,
                        !.sent_on_closed =
                            IF is_closed THEN @ \cup {[thread |-> t, sender |-> f.sender]}
                            ELSE @]
       IN  /\ is_closed => sm_ok
           /\ par.nFaults + fault <= MaxParFaults
           /\ par' = IF ok \/ IsLastAttempt(f.attempt)
                     THEN [tried EXCEPT !.calls[t] = [pc |-> "idle", attempt |-> 0,
                                                      sender |-> NULL]]
                     ELSE [tried EXCEPT !.calls[t].pc = "evict_test"]
    /\ UNCHANGED parRest

\* After time.sleep and _initialize_client: if queue_name in self.senders
ParEvictTest(t) ==
    /\ par.calls[t].pc = "evict_test"
    /\ par' = IF par.senders[PushQueue] # NULL
              THEN [par EXCEPT !.calls[t].pc = "evict"]
              ELSE [par EXCEPT !.calls[t].pc = "get", !.calls[t].attempt = @ + 1]
    /\ UNCHANGED parRest

\* self.senders[queue_name].close() inside its try, then
\* del self.senders[queue_name], which raises KeyError when the entry is
\* no longer there
ParEvict(t) ==
    /\ par.calls[t].pc = "evict"
    /\ par' = IF par.senders[PushQueue] # NULL
              THEN [par EXCEPT
                       !.closed = @ \cup {par.senders[PushQueue]},
                       !.senders = DropSender(@, PushQueue),
                       !.calls[t].pc = "get", !.calls[t].attempt = @ + 1]
              ELSE [par EXCEPT
                       !.evict_failed = @ \cup {t},
                       !.calls[t] = [pc |-> "idle", attempt |-> 0, sender |-> NULL]]
    /\ UNCHANGED parRest

ParSendNext ==
    \/ \E t \in Threads : ParSend(t)
    \/ \E t \in Threads : ParGetSender(t)
    \/ \E t \in Threads, sm_ok \in BOOLEAN : ParSendMessages(t, sm_ok)
    \/ \E t \in Threads : ParEvictTest(t)
    \/ \E t \in Threads : ParEvict(t)

ParSendSpec == Init /\ [][ParSendNext]_vars

-----------------------------------------------------------------------------
(* Properties of the rule engine *)

\* The message in hand was dispatched to a rule (handled or being handled)
Dispatched == outcome \in {"handling", "ack"}

\* The handling of the message in hand has returned normally
Acked == pc = "idle" /\ outcome = "ack"

\* The calls of one kind made so far for the message in hand
OpsOf(kind) == {i \in 1..Len(ops) : ops[i].op = kind}

\* The "No Changes" document as the audit container stores it
NoChangesDoc == DumpEntry(NoChangesEntry(h.event.id))

\* C1: whenever the changes of the message in hand are the single "No Changes"
\* entry, the handler never upserts the unified container and never sends to
\* a topic, and once it has returned it has appended exactly that one entry
\* to the audit container.
C1_NoChangesOnlyAudited ==
    (Dispatched /\ h.changes = {NoChangesEntry(h.event.id)}) =>
        /\ pc \in {"audit_nochange", "idle"}
        /\ OpsOf("upsert_item") = {} /\ OpsOf("send_messages") = {}
        /\ unified = pre.unified /\ sent = pre.sent
        /\ pc = "audit_nochange" => audit = pre.audit
        /\ pc = "idle" =>
              /\ audit = pre.audit (+) SetToBag({NoChangesDoc})
              /\ ops = <<[op |-> "create_item", topic |-> "", body |-> NoChangesDoc]>>

C1_Witness ==
    /\ Acked /\ h.changes = {NoChangesEntry(h.event.id)}
    /\ pre.unified[Render(h.event.id)] # NULL
    /\ audit = pre.audit (+) SetToBag({NoChangesDoc})

\* C2: every topic send of the message in hand comes after the upsert of the
\* sent record and after the audit writes of all the changes of the message,
\* and the body every topic has received is a document that has been stored
\* in the unified container (the one stored there while its message is in
\* hand).
C2_FanOutAfterPersist ==
    /\ \A i \in OpsOf("send_messages") :
          /\ \E j \in 1..(i - 1) : ops[j].op = "upsert_item" /\ ops[j].body = ops[i].body
          /\ {ops[j].body : j \in {k \in OpsOf("create_item") : k < i}}
                = {DumpEntry(c) : c \in h.changes}
          /\ Cardinality({k \in OpsOf("create_item") : k < i}) = Cardinality(h.changes)
          /\ unified[ops[i].body.id] = ops[i].body
    /\ \A t \in AllTopics : \A k \in 1..Len(sent[t]) : sent[t][k] \in persisted

C2_Witness ==
    /\ Acked
    /\ Cardinality(OpsOf("send_messages")) = 2
    /\ Cardinality(OpsOf("create_item")) = 3

\* C3: a direct call of get_topics_by_changes returns a list without
\* duplicates whose members are exactly the rule topics that are the
\* subesquema of some change, "root" only when include_root is true; and every
\* topic the handler sends to is a topic of the selected rule.
C3_TopicsByChanges ==
    /\ gt # NULL =>
          /\ {gt.result[i] : i \in 1..Len(gt.result)}
                = {t \in gt.rule_topics :
                      /\ \E c \in gt.changes : c.subesquema = t
                      /\ t = "root" => gt.include_root}
          /\ \A i, j \in 1..Len(gt.result) : gt.result[i] = gt.result[j] => i = j
    /\ \A i \in OpsOf("send_messages") : ops[i].topic \in h.rule.topics
    /\ \A t \in AllTopics : Len(sent[t]) > Len(pre.sent[t]) => t \in h.rule.topics

\* S4: rule topics {"root"}, a root change, include_root = true
C3_Witness ==
    /\ gt # NULL
    /\ gt.rule_topics = {"root"} /\ gt.include_root
    /\ \E c \in gt.changes : c.subesquema = "root"
    /\ gt.result = <<"root">>

\* The document stored for the message's id when the message arrived
StoredBefore == pre.unified[Render(h.event.id)]

\* The audit documents appended for the message in hand
Appended == audit (-) pre.audit

\* The leaf fields of a unified document: the id, and the fields of its
\* subschemas
Leaves == {<<"root", "id">>, <<"maestra", "info">>, <<"contacto", "email">>}

LeafValue(doc, p) ==
    IF doc = NULL THEN NULL
    ELSE IF p[1] = "root" THEN Str(doc[p[2]])
    ELSE IF doc[p[1]] = NULL THEN NULL
    ELSE doc[p[1]][p[2]]

\* The audit document of a difference in leaf p
LeafEntry(old_doc, new_doc, p) ==
    [id_entrada |-> new_doc.id, subesquema |-> p[1], campo |-> p[2],
     new_value |-> LeafValue(new_doc, p), old_value |-> LeafValue(old_doc, p)]

LeafDifferences(old_doc, new_doc) ==
    {p \in Leaves : LeafValue(old_doc, p) # LeafValue(new_doc, p)}

\* C4: for every handled message the audit entries appended are one entry per
\* leaf-field difference between the current record and the updated record,
\* or exactly the one "No Changes" entry when they do not differ.
C4_OneEntryPerDifference ==
    Acked =>
        LET diffs == LeafDifferences(StoredBefore, Dump(h.processed_data)) IN
        IF diffs = {}
        THEN Appended = SetToBag({NoChangesDoc})
        ELSE Appended = SetToBag({LeafEntry(StoredBefore, Dump(h.processed_data), p) :
                                     p \in diffs})

\* S1: the handled message created the record {id, maestra: {info: v}} and
\* its rule has the topic "maestra"
CreatedMaestraRecord ==
    /\ Acked
    /\ StoredBefore = NULL
    /\ h.processed_data.maestra # NULL /\ h.processed_data.contacto = NULL
    /\ "maestra" \in h.rule.topics

MaestraInfoDoc ==
    [id_entrada |-> Render(h.event.id), subesquema |-> "maestra", campo |-> "info",
     new_value |-> h.processed_data.maestra.info, old_value |-> NULL]

RootIdDoc ==
    [id_entrada |-> Render(h.event.id), subesquema |-> "root", campo |-> "id",
     new_value |-> Str(Render(h.event.id)), old_value |-> NULL]

\* What S1 expects of the unified container and of the topics
S1_StoredAndSent ==
    /\ unified = [pre.unified EXCEPT ![Render(h.event.id)] = Dump(h.processed_data)]
    /\ Dump(h.processed_data) =
          [id |-> Render(h.event.id), maestra |-> h.processed_data.maestra,
           contacto |-> NULL]
    /\ sent = [pre.sent EXCEPT !["maestra"] = Append(@, Dump(h.processed_data))]

\* C5 as stated: the creation appends exactly one audit entry, the one of
\* maestra.info.
C5_Original_OneAuditEntry ==
    CreatedMaestraRecord =>
        /\ S1_StoredAndSent
        /\ Appended = SetToBag({MaestraInfoDoc})

\* C5, amended: the creation stores the document, appends exactly two audit
\* entries, (root, id, null, the rendered id) and (maestra, info, null, v),
\* sends the full record to topic "maestra" and to no other topic, "root"
\* included.
C5_NewRecordCreation ==
    CreatedMaestraRecord =>
        /\ S1_StoredAndSent
        /\ Appended = SetToBag({RootIdDoc, MaestraInfoDoc})

C5_Witness ==
    /\ CreatedMaestraRecord
    /\ h.processed_data.maestra = [info |-> Str(<<"hello">>)]
    /\ "root" \in h.rule.topics \/ "contacto" \in h.rule.topics
    /\ BagCardinality(Appended) = 2
    /\ Len(sent["maestra"]) = 1 /\ sent["root"] = <<>>

\* The message in hand is the message handled just before it, whose handling
\* had completed
Replayed == Acked /\ pre.prev_outcome = "ack" /\ pre.prev_msg = h.msg

\* C6: handling the same message again leaves the unified container
\* unchanged, appends exactly one audit entry, with subesquema "No Changes"
\* and campo "Ninguno", and sends to no topic.
C6_IdempotentReplay ==
    Replayed =>
        /\ unified = pre.unified
        /\ sent = pre.sent
        /\ BagCardinality(Appended) = 1
        /\ \A e \in BagToSet(Appended) :
              e.subesquema = "No Changes" /\ e.campo = "Ninguno"
        /\ OpsOf("upsert_item") = {} /\ OpsOf("send_messages") = {}

C6_Witness ==
    /\ Replayed
    /\ h.rule.processor = "MergeProcessor"
    /\ unified[Render(h.event.id)] # NULL
    /\ Len(sent["maestra"]) = 1
    /\ BagCardinality(audit) = 3

\* A rule's model validates the message: the message has the model's required
\* keys and its id parses
Validates(rule, msg) == ModelValidate(rule.model, msg) # NULL

\* C7: the rule a message is dispatched to is the first registered rule whose
\* model validates it, the event is the message as that model validates it,
\* and selecting does not modify the rule list.
C7_FirstMatchingRule ==
    /\ Dispatched =>
          /\ h.rule_index \in 1..Len(rules)
          /\ h.rule = rules[h.rule_index]
          /\ Validates(rules[h.rule_index], h.msg)
          /\ \A j \in 1..(h.rule_index - 1) : ~Validates(rules[j], h.msg)
          /\ h.event.model = h.rule.model
          /\ \A f \in DeclaredFields(h.rule.model) \ {"id"} : h.event[f] = h.msg[f]
          /\ Render(h.event.id) = h.msg.id.s
    /\ nHandled > 0 => rules = pre.rules

C7_Witness ==
    /\ Dispatched
    /\ h.rule_index = 1 /\ Len(rules) = 2
    /\ rules[2].model # rules[1].model
    /\ Validates(rules[2], h.msg)

\* C8: when no registered rule's model validates the message, the handling
\* ends in NoHayReglas and has written nothing: no container or topic call
\* was made, and the unified container, the audit container and the topics
\* are as they were when the message arrived.
C8_NoMatchingRuleWritesNothing ==
    (nHandled > 0 /\ \A i \in 1..Len(rules) : ~Validates(rules[i], h.msg)) =>
        /\ outcome = "NoHayReglas"
        /\ pc = "idle"
        /\ ops = <<>>
        /\ unified = pre.unified /\ audit = pre.audit /\ sent = pre.sent

C8_Witness ==
    /\ outcome = "NoHayReglas"
    /\ Len(rules) = 2
    /\ BagCardinality(audit) > 0
    /\ h.msg.id = Str(<<"CLI001", "-", "PROD001">>)

\* C9: register_rule appends the rule iff every topic of the rule is "root"
\* or the name of a subschema of the unified model; otherwise it raises and
\* the rule list is unchanged.
C9_RegisterIffSubschemaTopics ==
    reg # NULL =>
        /\ ~reg.raised <=> reg.rule.topics \subseteq ({"root"} \cup Subschemas)
        /\ rules = IF reg.rule.topics \subseteq ({"root"} \cup Subschemas)
                   THEN Append(reg.before, reg.rule) ELSE reg.before

\* C10: process_rule hands the processor copies: the objects the processor
\* received are not the caller's, and after the call the caller's current
\* record is the record read from the container and the caller's event is
\* the validated event, whatever the processor did to its arguments.
C10_ProcessRuleDeepCopies ==
    Dispatched =>
        /\ ~h.same_objects
        /\ h.current_data = h.read
        /\ h.event = ModelValidate(h.rule.model, h.msg)

-----------------------------------------------------------------------------
(* Composite ids: round trip, parsing, rendering, construction *)

\* The tokens of a str
Tokens(t) == {t[i] : i \in 1..Len(t)}

\* The user fields of the ID types in the order the classes declare them
DeclarationOrder(type) ==
    IF type = "Clase2Atrs" THEN <<"producto_id", "lote">>
    ELSE IF type \in {"Clase3Atrs", "Clase3Atrs_no_default_sep"}
         THEN <<"numero_pedido", "fecha_pedido", "add_info">>
    ELSE IF type = "MockIDModel" THEN <<"id">>
    ELSE <<>>

\* No stringified user field of x holds the separator sep
NoFieldHolds(x, sep) ==
    \A n \in DOMAIN x.fields : sep \notin Tokens(PyStr(x.fields[n]))

\* An instance was rendered and the str validated by the type of the instance
RoundTripped ==
    /\ idop.op = "validate" /\ idop.source # NULL
    /\ idop.type = idop.source.type

\* An id with at least one user field, rendered with the separator its type
\* declares, none of whose stringified fields holds that separator
WellFormedId(x) ==
    /\ DeclarationOrder(x.type) # <<>>
    /\ x.separator = DeclaredSeparator(x.type)
    /\ NoFieldHolds(x, DeclaredSeparator(x.type))

ForeignSeparator ==
    /\ idop.op = "validate" /\ idop.source # NULL
    /\ idop.source.separator # DeclaredSeparator(idop.type)

\* The str validated is the rendering of an instance of a type with the same
\* user fields, whose separator is the one the validating type declares
DeclaringType ==
    /\ idop.op = "validate" /\ idop.source # NULL
    /\ DeclarationOrder(idop.type) = DeclarationOrder(idop.source.type)
    /\ idop.source.separator = DeclaredSeparator(idop.type)
    /\ idop.source.separator # DeclaredSeparator(idop.source.type)

\* Validation of a str fails with the format error of parse_serialized_id
\* exactly when the parts of the str, split by the separator the type declares,
\* are not as many as the user fields of the type
CountRule ==
    idop.op = "validate" =>
        (idop.result = Raised("ValueError")
            <=> Len(Split(idop.data.s, DeclaredSeparator(idop.type)))
                    # Len(DeclarationOrder(idop.type)))

SuppliedOrDefault(type, kwargs, name) ==
    IF \E i \in 1..Len(kwargs) : kwargs[i].name = name
    THEN kwargs[CHOOSE i \in 1..Len(kwargs) : kwargs[i].name = name].value
    ELSE FieldDefault(type, name)

\* C13: the rendering of a constructed id is the stringified user fields in
\* the order the type declares them, whatever the order of the keyword
\* arguments, joined by the separator of the instance; the separator is not
\* one of the parts.
C13_RenderDeclarationOrder ==
    (idop.op = "construct" /\ ~IsRaised(idop.result)) =>
        LET order == DeclarationOrder(idop.type)
            sep == SuppliedOrDefault(idop.type, idop.kwargs, "separator").s[1]
        IN  idop.rendered =
                Str(JoinStrs([i \in 1..Len(order) |->
                                PyStr(SuppliedOrDefault(idop.type, idop.kwargs, order[i]))],
                             sep))

C13_Witness ==
    /\ idop.op = "construct" /\ idop.type = "Clase3Atrs"
    /\ Len(idop.kwargs) = 4
    /\ idop.kwargs[1].name = "add_info" /\ idop.kwargs[2].name = "separator"
    /\ idop.kwargs[2].value = Str(<<"|">>)
    /\ idop.rendered = Str(<<"abc", "|", "zxc", "|", "10">>)

\* C14: a construction that supplies no user field raises, with or without
\* the separator.
C14_NoUserFieldRejected ==
    (/\ idop.op = "construct"
     /\ \A i \in 1..Len(idop.kwargs) : idop.kwargs[i].name = "separator")
    => IsRaised(idop.result)

-----------------------------------------------------------------------------
(* Definition of a unified-record type *)

Annotated(a, name) == \E i \in 1..Len(a) : a[i].name = name

KindOf(a, name) == a[CHOOSE i \in 1..Len(a) : a[i].name = name].kind

\* C15 as stated: a definition is accepted only if its id is a Composite-ID
\* type and every other field is a structured record type; a scalar field
\* other than id makes it fail.
C15_Original_UnifiedTypeDefinition ==
    (idop.op = "define" /\ ~IsRaised(idop.result)) =>
        /\ Annotated(idop.kwargs, "id") => KindOf(idop.kwargs, "id") = "IDModel"
        /\ \A i \in 1..Len(idop.kwargs) :
              idop.kwargs[i].name # "id" =>
                  idop.kwargs[i].kind \in {"IDModel", "BaseModel"}

\* C15, amended: a definition is accepted exactly when every annotation is a
\* class, its id, if the class body declares one, is a Composite-ID type, and
\* every field other than id and auditoria is a structured record type; a field
\* named auditoria may be a scalar class.
C15_UnifiedTypeDefinition ==
    idop.op = "define" =>
        (~IsRaised(idop.result) <=>
            /\ \A i \in 1..Len(idop.kwargs) : idop.kwargs[i].kind # "List"
            /\ Annotated(idop.kwargs, "id") => KindOf(idop.kwargs, "id") = "IDModel"
            /\ \A i \in 1..Len(idop.kwargs) :
                  idop.kwargs[i].name \notin {"id", "auditoria"} =>
                      idop.kwargs[i].kind \in {"IDModel", "BaseModel"})

C15_Witness ==
    /\ idop.op = "define" /\ ~IsRaised(idop.result)
    /\ Annotated(idop.kwargs, "id") /\ Annotated(idop.kwargs, "maestra")
    /\ Annotated(idop.kwargs, "auditoria") /\ KindOf(idop.kwargs, "auditoria") = "str"

-----------------------------------------------------------------------------
(* Ingress adapters and broker client *)

\* The messages the function in hand has delivered to a queue
Delivered(q) == broker[q]

\* C16: every message an adapter delivers to its queue has as session_id the
\* rendered id of the event in its body.
C16_SessionIsRenderedId ==
    \A q \in QueueNames : \A i \in 1..Len(Delivered(q)) :
        Delivered(q)[i].session_id = Delivered(q)[i].body.id

\* The bodies a timer run has to have published when it has gone through the
\* first n elements: the dumps of the valid ones, in order
ExpectedBodies(data, n) ==
    LET valid == SelectSeq(SubSeq(data, 1, n), LAMBDA e : ProcessEvent(e) # NULL)
    IN  [i \in 1..Len(valid) |-> DumpEvent(ProcessEvent(valid[i]))]

\* C17: in a timer run the messages published are those of the valid elements
\* gone through, in order; an invalid element publishes nothing and does not
\* end the run: a run that has returned went through every element, and a run
\* that was ended by an exception was ended at a valid element, by its send.
C17_InvalidElementSkipped ==
    frame.fn = "timer_function" =>
        /\ [i \in 1..Len(Delivered(PullQueue)) |-> Delivered(PullQueue)[i].body]
              = ExpectedBodies(frame.data, frame.done)
        /\ Delivered(PushQueue) = <<>>
        /\ frame.status = "returned" => frame.done = Len(frame.data)
        /\ frame.status = "raised" =>
              /\ frame.done < Len(frame.data)
              /\ ProcessEvent(frame.data[frame.done + 1]) # NULL

C17_Witness ==
    /\ frame.fn = "timer_function" /\ frame.status = "returned"
    /\ frame.data = <<ElementA, ElementX, ElementB>>
    /\ Len(Delivered(PullQueue)) = 2
    /\ Delivered(PullQueue)[1].body.id = ElementA.id
    /\ Delivered(PullQueue)[2].body.id = ElementB.id

\* The events of the log of one kind
Events(kind) == {i \in 1..Len(log) : log[i].ev = kind}

\* C18: one call of send_message_to_queue calls send_messages at most
\* MAX_RETRIES times; a call that succeeded is the last one of the call, and
\* the call has returned; when MAX_RETRIES calls have failed the call has
\* raised; a call that raised delivered nothing.
C18_AtMostMaxRetries ==
    /\ Len(frame.sends) <= MAX_RETRIES
    /\ frame.attempt < MAX_RETRIES
    /\ \A i \in 1..Len(frame.sends) : frame.sends[i] = "ok" => i = Len(frame.sends)
    /\ (frame.sends # <<>> /\ frame.sends[Len(frame.sends)] = "ok")
          => frame.status \in {"returned", "loop"}
    /\ (Len(frame.sends) = MAX_RETRIES /\ frame.sends[MAX_RETRIES] = "error")
          => frame.status = "raised"
    /\ (frame.status = "raised" /\ frame.message # NULL)
          => /\ \A i \in 1..Len(frame.sends) : frame.sends[i] = "error"
             /\ log # <<>> => log[Len(log)].ev # "send_ok"
             /\ \A i \in 1..Len(Delivered(frame.queue)) :
                   Delivered(frame.queue)[i].body # frame.message
    /\ Cardinality(Events("send_ok")) = Len(Delivered(PushQueue)) + Len(Delivered(PullQueue))

C18_Witness ==
    /\ frame.fn = "receive_event" /\ frame.status = "raised"
    /\ frame.sends = <<"error", "error", "error">>
    /\ Delivered(PushQueue) = <<>>

\* C19: a sender is created only when none is cached for the queue; a send
\* uses the cached sender when there is one, so two successful sends with no
\* other sender call between them use the same sender; after close() the cache
\* is empty and the client forgotten, and every sender that was cached and the
\* client have been closed.
C19_SenderCache ==
    /\ \A i \in Events("create_sender") : log[i].obj.cached = NULL
    /\ \A i \in Events("send_ok") \cup Events("send_fail") :
          log[i].obj.cached # NULL => log[i].obj.sender = log[i].obj.cached
    /\ \A i \in Events("send_ok") :
          (i < Len(log) /\ log[i + 1].ev = "send_ok" /\ log[i + 1].arg = log[i].arg)
              => log[i + 1].obj.sender = log[i].obj.sender
    /\ \A i \in Events("close") :
          /\ i = 1
          /\ senders = NoSenders /\ client = NULL
          /\ \A q \in QueueNames :
                log[1].obj.senders[q] # NULL =>
                    \E k \in Events("close_sender") :
                        log[k].arg = q /\ log[k].obj.sender = log[1].obj.senders[q]
          /\ log[1].obj.client # NULL =>
                (log[Len(log)].ev = "close_client" /\ log[Len(log)].obj = log[1].obj.client)

C19_Witness ==
    /\ Len(log) = 3
    /\ log[1].ev = "create_sender" /\ log[2].ev = "send_ok" /\ log[3].ev = "send_ok"
    /\ log[3].obj.sender = log[1].obj.sender
    /\ senders[PullQueue] = log[1].obj.sender

\* C20: the instance a constructor call with connection string c returns is
\* connected with c.
C20_SingletonPerConnectionString ==
    \A i \in Events("new") :
        ~IsRaised(log[i].obj) =>
            /\ log[i].obj.connection_str = log[i].arg
            /\ client # NULL => client.conn = log[i].arg

-----------------------------------------------------------------------------
(* Integration rule *)

\* The events of one kind of the call of the rule in hand, in order
IEvents(kind) == SelectSeq(ilog, LAMBDA e : e.ev = kind)

\* A call of run has ended after calling integrate at least once
RunEnded == rframe.fn = "run" /\ rframe.status # "calling" /\ rframe.calls # <<>>

\* How the last call of integrate ended
LastCall == rframe.calls[Len(rframe.calls)]

\* The last call of integrate returned a result and left body_sent set
IntegrateSucceeded ==
    /\ RunEnded /\ LastCall.kind = "return" /\ LastCall.value # NULL
    /\ irule.body_sent # NULL

\* C21: a run whose message the unified model rejects has raised ValueError
\* without calling integrate, and has written no integration-audit entry.
C21_InvalidMessageRaises ==
    (rframe.fn = "run" /\ IsRaised(UnifiedModelValidate(rframe.message))) =>
        /\ rframe.status = "raised"
        /\ rframe.result.raised = "ValueError"
        /\ rframe.calls = <<>> /\ ilog = <<>>
        /\ written = rframe.before

C21_Witness ==
    /\ rframe.fn = "run" /\ rframe.status = "raised"
    /\ rframe.message = [id |-> Str(<<"123">>), data |-> [datas |-> Str(<<"test">>)]]
    /\ written # <<>>

HelperCallsBounded ==
    /\ Len(IEvents("integrate")) <= max_retries
    /\ Len(rframe.calls) = Len(IEvents("integrate"))
    /\ \A i \in 1..Len(rframe.calls) :
          rframe.calls[i].kind = "return" =>
              /\ i = Len(rframe.calls)
              /\ rframe.status # "calling"
              /\ rframe.helper = rframe.calls[i].value

\* Every call the helper made has raised
AllCallsRaised ==
    /\ RunEnded /\ Len(rframe.calls) = max_retries
    /\ \A i \in 1..Len(rframe.calls) : rframe.calls[i].kind = "raise"

\* C24 as stated: the helper calls integrate at most max_retries times and
\* returns the first result; when every call raised, the helper raised the
\* last exception and run raised it to its caller.
C24_Original_RetryThenReraise ==
    rframe.fn = "run" =>
        /\ HelperCallsBounded
        /\ AllCallsRaised =>
              /\ rframe.helper = LastCall.value
              /\ rframe.status = "raised"
              /\ rframe.result = LastCall.value

\* C24 as amended: the same, except that run raises the last exception to
\* its caller only when it is not a ValidationError; a ValidationError it
\* turns into the result it returns.
C24_RetryThenReraise ==
    rframe.fn = "run" =>
        /\ HelperCallsBounded
        /\ AllCallsRaised =>
              /\ rframe.helper = LastCall.value
              /\ LastCall.value.raised # "ValidationError" =>
                    (rframe.status = "raised" /\ rframe.result = LastCall.value)
              /\ LastCall.value.raised = "ValidationError" =>
                    (rframe.status = "returned" /\ IsIntegrationResult(rframe.result))

C24_Witness ==
    /\ AllCallsRaised
    /\ rframe.calls[1].value.raised = "ValidationError"
    /\ LastCall.value.raised = "HTTPError"
    /\ rframe.status = "raised" /\ rframe.result = LastCall.value

\* C25: a run that has called integrate and has ended, integrate having
\* succeeded or every call the helper makes having raised, has upserted
\* exactly one integration-audit entry.
C25_OneEntryPerAttempt ==
    (IntegrateSucceeded \/ AllCallsRaised) =>
        /\ Len(IEvents("upsert_item")) = 1
        /\ Len(written) = Len(rframe.before) + 1

\* C26: every integration-audit entry ever written is in the container as it
\* was written.
C26_AuditWriteOnce ==
    \A i \in 1..Len(written) : intAudit[written[i].id] = written[i]

\* C30: the n-th sleep of a run (n from 0) follows the failed call n and
\* lasts base_delay * 2^n; a failed call is followed by a sleep unless it
\* was the last call the helper makes; and a run of two failed calls and a
\* successful one is three calls with sleeps of 1 and 2, then the upsert of
\* an entry with the success and the response of the result.
C30_BackoffDelays ==
    rframe.fn = "run" =>
        LET sleeps == IEvents("sleep") IN
        /\ \A i \in 1..Len(sleeps) :
              sleeps[i].arg = i - 1 /\ sleeps[i].obj = base_delay * (2 ^ (i - 1))
        /\ \A p \in 1..Len(ilog) :
              /\ ilog[p].ev = "sleep" =>
                    /\ p > 1 /\ ilog[p - 1].ev = "integrate"
                    /\ ilog[p - 1].obj.kind = "raise"
                    /\ ilog[p - 1].arg < max_retries - 1
                    /\ p < Len(ilog) => ilog[p + 1].ev = "integrate"
              /\ (ilog[p].ev = "integrate" /\ ilog[p].obj.kind = "raise"
                    /\ ilog[p].arg < max_retries - 1) =>
                    (p < Len(ilog) /\ ilog[p + 1].ev = "sleep")
              /\ (ilog[p].ev = "integrate" /\ ilog[p].arg = max_retries - 1) =>
                    (p = Len(ilog) \/ ilog[p + 1].ev = "upsert_item")
        /\ (IntegrateSucceeded /\ Len(rframe.calls) = 3
              /\ rframe.calls[1].kind = "raise" /\ rframe.calls[2].kind = "raise") =>
              /\ [p \in 1..Len(ilog) |-> ilog[p].ev] =
                    <<"integrate", "sleep", "integrate", "sleep", "integrate",
                      "upsert_item">>
              /\ ilog[2].obj = 1 /\ ilog[4].obj = 2
              /\ ilog[6].obj.success = LastCall.value.success
              /\ ilog[6].obj.response = LastCall.value.response
              /\ ilog[6].obj.contenido = LastCall.value.bodysent

C30_Witness ==
    /\ RunEnded /\ rframe.status = "returned" /\ Len(rframe.calls) = 3
    /\ rframe.calls[1].value.raised = "HTTPError"
    /\ rframe.calls[2].value.raised = "HTTPError"
    /\ Len(ilog) = 6 /\ ilog[2].obj = 1 /\ ilog[4].obj = 2
    /\ ilog[6].obj.success = TRUE /\ ilog[6].obj.response = [status |-> "ok"]

-----------------------------------------------------------------------------
(* body_sent, the contents of the entries and validation errors of integrate *)

\* The helper of the run in hand returned (integrate returned)
HelperReturned == RunEnded /\ LastCall.kind = "return"

\* No call of integrate of the run in hand assigned self.body_sent
NeverSetBodySent ==
    \A i \in 1..Len(rframe.calls) : rframe.calls[i].body_sent = "keep"

\* C31: once integrate has returned, run has raised ValueError and has
\* written no integration-audit entry whenever body_sent is None, and in
\* particular whenever no call of integrate of that run set body_sent.
C31_NullBodySentRaises ==
    (HelperReturned /\ (irule.body_sent = NULL \/ NeverSetBodySent)) =>
        /\ rframe.status = "raised"
        /\ rframe.result.raised = "ValueError"
        /\ IEvents("upsert_item") = <<>>
        /\ written = rframe.before

\* C32: every integration-audit entry written has a contenido and a response
\* that are not empty, and IntegrationResult(...) of an empty response or of
\* an empty bodysent raises ValueError: a call of integrate that built one
\* has raised it.
C32_EntriesNotEmpty ==
    /\ \A i \in 1..Len(written) :
          written[i].contenido # EmptyDict /\ written[i].response # EmptyDict
    /\ \A s \in BOOLEAN, d \in {EmptyDict, [status |-> "ok"]} :
          /\ IntegrationResult(s, EmptyDict, d) = Raised("ValueError")
          /\ IntegrationResult(s, d, EmptyDict) = Raised("ValueError")
    /\ \A i \in 1..Len(rframe.calls) :
          rframe.calls[i].kind = "return" /\ rframe.calls[i].value # NULL =>
              /\ rframe.calls[i].value.bodysent # EmptyDict
              /\ rframe.calls[i].value.response # EmptyDict

C32_Witness ==
    /\ RunEnded /\ Len(rframe.calls) = 2
    /\ rframe.calls[1] = [kind |-> "raise", body_sent |-> "keep",
                          value |-> [raised |-> "ValueError", errors |-> <<>>]]
    /\ rframe.status = "returned"
    /\ Len(written) = 2

\* C40: when every call of integrate of a run raised a ValidationError, the
\* helper has called integrate exactly max_retries times with a sleep of
\* base_delay * 2^n after the failed call n, the last one excepted; run has
\* then returned a result with success = false and exactly one entry has
\* been upserted.
C40_ValidationErrorRetried ==
    (RunEnded /\ \A i \in 1..Len(rframe.calls) :
                    /\ rframe.calls[i].kind = "raise"
                    /\ rframe.calls[i].value.raised = "ValidationError") =>
        /\ Len(rframe.calls) = max_retries
        /\ [p \in 1..Len(ilog) |-> ilog[p].ev] =
              <<"integrate", "sleep", "integrate", "sleep", "integrate",
                "upsert_item">>
        /\ ilog[2].obj = base_delay /\ ilog[4].obj = base_delay * 2
        /\ rframe.status = "returned"
        /\ rframe.result.success = FALSE
        /\ written = Append(rframe.before, ilog[6].obj)

C40_Witness ==
    /\ RunEnded /\ Len(rframe.calls) = max_retries
    /\ \A i \in 1..max_retries :
          rframe.calls[i].value = [raised |-> "ValidationError",
                                   errors |-> <<"value_error">>]
    /\ Len(IEvents("sleep")) = 2 /\ Len(IEvents("upsert_item")) = 1

-----------------------------------------------------------------------------
(* Retry of a send *)

\* The place in the log of the first send made after place p, or 0
NextSend(p) ==
    LET later == {k \in (p + 1)..Len(log) : log[k].ev \in {"send_ok", "send_fail"}}
    IN  IF later = {} THEN 0 ELSE CHOOSE k \in later : \A j \in later : k <= j

\* C29: a failed send that is followed by another attempt is followed first
\* by the reinitialization of the client, then by the closing of the sender
\* it used, which is removed from the cache; the next send is made on a
\* sender created after that; and no step of a send_message_to_queue call
\* changes the cached sender of another queue.
C29_RetryOnFreshSender ==
    /\ [](\A p \in 1..Len(log) :
            (log[p].ev = "send_fail" /\ p < Len(log)) =>
                /\ Len(log) >= p + 2
                /\ log[p + 1].ev = "init_client"
                /\ log[p + 2].ev = "close_sender"
                /\ log[p + 2].obj.sender = log[p].obj.sender
                /\ NextSend(p) # 0 =>
                      /\ log[NextSend(p)].obj.cached = NULL
                      /\ log[NextSend(p)].obj.sender # log[p].obj.sender
                      /\ log[NextSend(p) - 1].ev = "create_sender"
                      /\ log[NextSend(p) - 1].obj.sender = log[NextSend(p)].obj.sender)
    /\ []((frame.status = "sending" /\ frame.attempt > 0) =>
            /\ senders[frame.queue] = NULL
            /\ client = [conn |-> instance.connection_str])
    /\ [][frame.status = "sending" =>
            \A q \in QueueNames \ {frame.queue} : senders'[q] = senders[q]]_vars

C29_Witness ==
    /\ Len(log) = 6
    /\ log[2].ev = "send_fail" /\ log[3].ev = "init_client"
    /\ log[4].ev = "close_sender" /\ log[5].ev = "create_sender"
    /\ log[6].ev = "send_ok" /\ log[6].arg = PullQueue
    /\ log[6].obj.sender # log[2].obj.sender
    /\ senders[PushQueue] # NULL

-----------------------------------------------------------------------------
(* Classification of the fields by detect_changes *)

\* The entries the classification of C28 gives for field f of the updated
\* record, old being the field of the current record (None without one)
ClassifiedEntries(current, updated, id_model, f) ==
    LET new_value == updated[f]
        old_value == IF current = NULL THEN NULL ELSE current[f]
        old_sub(sf) == IF old_value = NULL THEN NULL ELSE GetAttr(old_value, sf)
    IN  IF IsBaseModel(new_value) /\ ~IsIDModel(new_value)
        THEN {LogChanges(id_model, f, old_sub(sf), new_value[sf], sf) :
                 sf \in {x \in DOMAIN new_value : old_sub(x) # new_value[x]}}
        ELSE IF old_value # new_value
             THEN {LogChanges(id_model, "root", old_value, new_value, f)}
             ELSE {}

\* C28: the entries detect_changes returns are, for each field set on the
\* updated record, those of the one classification, with or without a
\* current record ("No Changes" alone when there are none).
C28_ClassifiedAlike ==
    diff.op = "detect_changes" =>
        LET expected == UNION {ClassifiedEntries(diff.current_data, diff.updated_data,
                                                 diff.id_model, f) :
                                  f \in diff.updated_data.fs}
        IN  diff.changes = IF expected = {} THEN {NoChangesEntry(diff.id_model)}
                           ELSE expected

-----------------------------------------------------------------------------
(* Merges of one record *)

\* The workers that hold a message
Busy == {w \in Workers : sess.workers[w] # NULL}

\* C27: for a given unified-record ID the merges are linearized: two
\* messages with the same ID are never handled at the same time, every merge
\* read the document that the container held when the merge was written (so
\* the second merge read what the first wrote and no update is lost), and the
\* unified container holds at most one document per rendered ID.
C27_MergesLinearized ==
    /\ \A w1 \in Busy, w2 \in Busy :
          w1 # w2 => sess.workers[w1].event.id # sess.workers[w2].event.id
    /\ \A i \in 1..Len(sess.merges) : sess.merges[i].read = sess.merges[i].held
    /\ \A k \in Keys : unified[k] # NULL => unified[k].id = k

-----------------------------------------------------------------------------
(* The OAuth token of the REST integration *)

\* The positions of the events of one kind in the log of the instance
RestEvents(kind) == {i \in 1..Len(rest.log) : rest.log[i].ev = kind}

\* The integrate event of the call that logged position j
CallOf(j) ==
    CHOOSE k \in RestEvents("integrate") :
        /\ k <= j /\ rest.log[k].arg = rest.log[j].arg
        /\ \A m \in RestEvents("integrate") :
              (m <= j /\ rest.log[m].arg = rest.log[j].arg) => m <= k

\* C33: the token is reused and obtained only when none is cached: every
\* authentication request was made with no token cached, and a call that
\* found a cached token sent it; and after a 4xx response of the resource
\* endpoint the instance authenticates again: a request of a call that began
\* after that response carries a token obtained after the rejected one.
C33_TokenReuseAndRenewal ==
    /\ \A i \in RestEvents("authenticate") : rest.log[i].obj = NULL
    /\ \A j \in RestEvents("request") \cup RestEvents("ignored") :
          rest.log[CallOf(j)].obj # NULL =>
              (j = CallOf(j) + 1
                /\ rest.log[j].obj = rest.log[CallOf(j)].obj.access_token)
    /\ \A i \in RestEvents("response"), j \in RestEvents("request") :
          (rest.log[i].obj.status >= 400 /\ i < CallOf(j)) =>
              rest.log[j].obj > rest.log[i].obj.token

\* C34: at most one authentication request is in progress at any time, and
\* the calls that began with no token cached proceed with one and the same
\* token.
C34_OneRefreshAtATime ==
    /\ Cardinality({t \in Threads : rest.calls[t].pc = "auth"}) <= 1
    /\ \A t1 \in Threads, t2 \in Threads :
          (rest.calls[t1].pc = "request" /\ rest.calls[t2].pc = "request"
            /\ rest.valid # {}) =>
              rest.calls[t1].token = rest.calls[t2].token

-----------------------------------------------------------------------------
(* The database client singleton *)

\* C36: there is one instance per (connection string, database name): the
\* instance a construction with a connection string and a database name
\* returns is the instance of that pair; its database client is created at
\* most once; and a container access that raised for want of a connection
\* string or a database name left the client unset.
C36_OneInstanceOneClient ==
    /\ \A i \in 1..Len(cosmos.made) :
          cosmos.made[i].args.connection_string # NULL =>
              cosmos.made[i].got = cosmos.made[i].args
    /\ cosmos.created <= 1
    /\ \A i \in 1..Len(cosmos.raised) : cosmos.raised[i].client = NULL

-----------------------------------------------------------------------------
(* The no-op branch *)

\* C38: the handler takes the no-op branch only when the record the
\* processor produced equals the stored record: whenever the changes of a
\* dispatched message are the single "No Changes" entry, there was a stored
\* record and the produced record dumps to the same document.
C38_NoOpOnlyWhenEqual ==
    (Dispatched /\ IsNoChanges(h.changes)) =>
        /\ h.read # NULL
        /\ Dump(h.processed_data) = Dump(h.read)

-----------------------------------------------------------------------------
(* Redelivery after a failure *)

\* The message whose handling failed has been delivered again, right after
\* the failure, and that handling has ended
Redelivered ==
    /\ failed # NULL /\ h.msg = failed.msg
    /\ pre.prev_outcome = "failed" /\ outcome = "ack"

\* C37: when the handling of a message failed after its upsert, during an
\* audit write or a topic send, and the message was redelivered and handled,
\* every field change of the failed handling is in the audit container and
\* the record has been sent to every changed topic of the rule.
C37_RedeliveryCompletes ==
    Redelivered =>
        /\ \A c \in failed.changes : BagIn(DumpEntry(c), audit)
        /\ \A t \in failed.topics :
              \E i \in 1..Len(sent[t]) : sent[t][i] = Dump(failed.processed_data)

-----------------------------------------------------------------------------
(* Runs of one rule at the same time *)

\* C39: every integration-audit entry written carries the id of the record
\* that the run which wrote it validated and integrated.
C39_EntryOfOwnRecord ==
    \A i \in 1..Len(cruns.written) :
        cruns.written[i].entry.id = cruns.written[i].own

-----------------------------------------------------------------------------
(* The cache of senders under calls that run at the same time *)

\* C35: insertion and eviction of cached senders exclude each other: no
\* call has sent on a sender that the retry of another call had closed, and
\* no eviction has failed because another call had removed the entry.
C35_SendersMutuallyExclusive ==
    /\ par.sent_on_closed = {}
    /\ par.evict_failed = {}

=============================================================================
